---------------------------- MODULE Spec2Model ----------------------------
(***************************************************************************)
(* Verification model of FileTypeAnalyzer's concurrent analysis scheduler, *)
(* class DynamicTaskQueue (src/README.md, lines 169-241), as it is driven  *)
(* by analyzeFiles and organizeFiles.                                      *)
(*                                                                         *)
(* JavaScript runs every callback to completion, so each of add(),         *)
(* start(), the .then callback and the .catch callback of one dispatched   *)
(* handler is one atomic action.  Work items are identified by the         *)
(* position at which they were enqueued (1, 2, ...); the result of a       *)
(* successful handler is identified with its item.                         *)
(*                                                                         *)
(* The handlers passed to start() are async functions: an invocation       *)
(* always returns a promise, which later resolves or rejects.  onProgress  *)
(* and onComplete are set before add() and return normally.  Nothing in    *)
(* the program assigns this.paused after construction.                     *)
(***************************************************************************)
EXTENDS Integers, Sequences, FiniteSets

(* ----------------------------- bounds ---------------------------------- *)
MaxItems == 4        \* items enqueued over the life of one queue
MaxK == 3            \* concurrency limits tried: 1..MaxK
MaxDuration == 2     \* handler durations (ms) tried: 1..MaxDuration
MaxBatch == 2        \* files per batch when the concurrency is tuned

(* ------------------------ program constants ---------------------------- *)
WindowSize == 50     \* moving average window of the ETA statistics
MiB == 1048576       \* 1024 * 1024
LargeMiB == 50       \* average size, in MiB, above which a batch is "large"

VARIABLES
    concurrency,     \* this.concurrency
    queue,           \* this.queue: pending items, FIFO
    activeCount,     \* this.activeCount
    results,         \* this.results
    paused,          \* this.paused
    times,           \* this.times: recent task durations
    totalTasks,      \* this.totalTasks
    handler,         \* this.handler: "unset" until start(), then "set"
    inflight,        \* handler invocations started and not yet settled
    dispatched,      \* items in the order their handler was invoked
    settled,         \* items in the order their handler settled
    errorLog,        \* console.error("Task failed", ...): rejected items
    progressLog,     \* the stats objects passed to onProgress, in order
    completeLog,     \* one snapshot per invocation of onComplete
    sizes,           \* analyzeFiles: file.size of every file of the batch
    tuned,           \* analyzeFiles: the concurrency chosen (0: not yet)
    batch,           \* analyzeFiles: fileArray, when contents are modelled
    file,            \* analyzeFile: the file being analysed
    record,          \* analyzeFile: the result object
    pc,              \* analyzeFile: position of the pipeline
    calls,           \* analyzeFile: helper functions invoked so far
    matched,         \* analyzeFile: outcome of the magic match loop
    workerOut,       \* worker.js: answer of detectType
    cppOut,          \* analyzer.cpp: outcome of the magic match loop
    hexOut,          \* bytesToHex: the string returned
    uploads,         \* the files handed to the analysis, in input order
    currentFileData, \* currentFileData: file name -> file stored under it
    analysisResults, \* analysisResults: the records of the last analysis
    readyJobs,       \* organizeFiles: the naming plan
    dirHandles,      \* organizeFiles: folder names with a cached handle
    mkdirs,          \* organizeFiles: getDirectoryHandle(create) calls issued
    jobPc,           \* organizeFiles: position of each write handler
    written,         \* organizeFiles: the files written so far
    throwers,        \* items for which the handler throws when invoked
    workerPool,      \* workerPool: busy flag and task of each worker
    workerQueue,     \* workerQueue: tasks submitted and not yet answered
    workerIdCounter, \* workerIdCounter
    sentLog,         \* postMessage calls of processQueue, in order
    taskLog,         \* settlements of the promises of runOnWorker, in order
    filePaths,       \* analyzeFilesParallel: the input paths
    hardware,        \* thread::hardware_concurrency()
    futures,         \* analyzeFilesParallel: the chunks launched
    cppResults,      \* analyzeFilesParallel: the results vector
    progressCurrent, \* ProgressTracker: current
    parPc            \* analyzeFilesParallel: position of the calling thread

\* state of one DynamicTaskQueue
queueVars == <<concurrency, queue, activeCount, results, paused, times,
               totalTasks, handler, inflight, dispatched, settled, errorLog,
               progressLog, completeLog>>

\* state of the concurrency tuning of analyzeFiles
tuneVars == <<sizes, tuned, batch>>

\* state of the analysis of one file
fileVars == <<file, record, pc, calls, matched, workerOut, cppOut>>

\* result of one bytesToHex call
hexVars == <<hexOut>>

\* state of one organize run
orgVars == <<uploads, currentFileData, analysisResults, readyJobs, dirHandles,
             mkdirs, jobPc, written>>

\* handlers that throw
faultVars == <<throwers>>

\* state of the worker pool
poolVars == <<workerPool, workerQueue, workerIdCounter, sentLog, taskLog>>

\* state of one analyzeFilesParallel call
parVars == <<filePaths, hardware, futures, cppResults, progressCurrent, parPc>>

vars == <<concurrency, queue, activeCount, results, paused, times, totalTasks,
          handler, inflight, dispatched, settled, errorLog, progressLog,
          completeLog, sizes, tuned, batch, file, record, pc, calls, matched, workerOut,
          cppOut, hexOut, uploads, currentFileData,
          analysisResults, readyJobs, dirHandles, mkdirs, jobPc, written,
          throwers, workerPool, workerQueue, workerIdCounter, sentLog,
          taskLog, filePaths, hardware, futures, cppResults, progressCurrent,
          parPc>>

(* ------------------------------ helpers -------------------------------- *)
RECURSIVE Sum(_)
Sum(s) == IF s = <<>> THEN 0 ELSE Head(s) + Sum(Tail(s))

Range(s) == {s[x] : x \in 1..Len(s)}

\* items i+1 .. i+n as a sequence
NewItems(i, n) == [x \in 1..n |-> i + x]

\* getAverageTime(): a mean of durations, kept as the exact fraction num/den
getAverageTime(ts) ==
    IF Len(ts) = 0 THEN [num |-> 0, den |-> 1]
    ELSE [num |-> Sum(ts), den |-> Len(ts)]

\* variant: the newest duration is dropped (pop) instead of the oldest
pushTime_KeepsOldest(ts, d) ==
    LET pushed == Append(ts, d)
    IN  IF Len(pushed) > WindowSize THEN SubSeq(pushed, 1, WindowSize)
        ELSE pushed

\* this.times.push(duration); if (this.times.length > 50) this.times.shift()
pushTime(ts, d) ==
    LET pushed == Append(ts, d)
    IN  IF Len(pushed) > WindowSize THEN Tail(pushed) ELSE pushed

\* variant: the slot test admits one handler too many
canDispatch_OffByOne(ac, k, q) == ac <= k /\ Len(q) > 0

\* loop condition of process(): a slot is free and an item is pending
canDispatch(ac, k, q) == ac < k /\ Len(q) > 0

\* variant: a handler is invoked without counting it as active
RECURSIVE fillSlots_NoCount(_, _, _, _, _)
fillSlots_NoCount(ac, k, q, fl, ds) ==
    IF canDispatch(Cardinality(fl), k, q)
    THEN fillSlots_NoCount(ac, k, Tail(q), fl \cup {Head(q)},
                           Append(ds, Head(q)))
    ELSE [activeCount |-> ac, queue |-> q, inflight |-> fl, dispatched |-> ds]

\* variant: the pending item enqueued last is taken first (pop)
RECURSIVE fillSlots_Lifo(_, _, _, _, _)
fillSlots_Lifo(ac, k, q, fl, ds) ==
    IF canDispatch(ac, k, q)
    THEN fillSlots_Lifo(ac + 1, k, SubSeq(q, 1, Len(q) - 1),
                        fl \cup {q[Len(q)]}, Append(ds, q[Len(q)]))
    ELSE [activeCount |-> ac, queue |-> q, inflight |-> fl, dispatched |-> ds]

\* variant: an if instead of the while, one item per call of process()
fillSlots_OneAtATime(ac, k, q, fl, ds) ==
    IF canDispatch(ac, k, q)
    THEN [activeCount |-> ac + 1, queue |-> Tail(q),
          inflight |-> fl \cup {Head(q)}, dispatched |-> Append(ds, Head(q))]
    ELSE [activeCount |-> ac, queue |-> q, inflight |-> fl, dispatched |-> ds]

\* the while loop of process(): fill free slots from the head of the queue
RECURSIVE fillSlots(_, _, _, _, _)
fillSlots(ac, k, q, fl, ds) ==
    IF canDispatch(ac, k, q)
    THEN fillSlots(ac + 1, k, Tail(q), fl \cup {Head(q)}, Append(ds, Head(q)))
    ELSE [activeCount |-> ac, queue |-> q, inflight |-> fl, dispatched |-> ds]

\* variant: completion is tested on the queue alone
isIdle_QueueOnly(ac, q) == Len(q) = 0

\* completion test at the end of process()
isIdle(ac, q) == ac = 0 /\ Len(q) = 0

\* snapshot taken when onComplete(this.results) is invoked
completeEvent(res, ac, q, fl, st, el) ==
    [results |-> res, activeCount |-> ac, queueLen |-> Len(q),
     inflight |-> fl, total |-> totalTasks, settled |-> st, rejected |-> el]

\* process(), entered with activeCount ac, results res, pending handler
\* invocations fl, settlement history st and rejections el
process(ac, res, fl, st, el) ==
    IF paused
    THEN /\ activeCount' = ac
         /\ inflight' = fl
         /\ UNCHANGED <<queue, dispatched, completeLog>>
    ELSE LET f == fillSlots(ac, concurrency, queue, fl, dispatched)
         IN  /\ activeCount' = f.activeCount
             /\ queue' = f.queue
             /\ inflight' = f.inflight
             /\ dispatched' = f.dispatched
             /\ completeLog' =
                   IF isIdle(f.activeCount, f.queue)
                   THEN Append(completeLog,
                               completeEvent(res, f.activeCount, f.queue,
                                             f.inflight, st, el))
                   ELSE completeLog

(* ------------------------------ actions -------------------------------- *)
\* no batch has been handed to analyzeFiles
noBatch == sizes = <<>> /\ tuned = 0 /\ batch = <<>>

\* no file is being analysed
noFile ==
    /\ file = [name |-> <<>>, bytes |-> <<>>, readable |-> FALSE,
               digestOk |-> FALSE]
    /\ record = [type |-> "none"]
    /\ pc = "idle"
    /\ calls = {}
    /\ matched = [type |-> "none"]
    /\ workerOut = [success |-> FALSE]
    /\ cppOut = [type |-> "none"]

\* bytesToHex has not been called
noHex == hexOut = [impl |-> "none", hex |-> <<>>]

\* no organize run has started
noOrganize ==
    /\ uploads = <<>>
    /\ currentFileData = <<>>
    /\ analysisResults = <<>>
    /\ readyJobs = <<>>
    /\ dirHandles = {}
    /\ mkdirs = <<>>
    /\ jobPc = <<>>
    /\ written = {}

\* every handler returns a promise
noFault == throwers = {}

\* the worker pool has not been initialised
noPool ==
    /\ workerPool = <<>>
    /\ workerQueue = <<>>
    /\ workerIdCounter = 0
    /\ sentLog = <<>>
    /\ taskLog = <<>>

\* analyzeFilesParallel has not been called
noParallel ==
    /\ filePaths = <<>>
    /\ hardware = 0
    /\ futures = <<>>
    /\ cppResults = <<>>
    /\ progressCurrent = 0
    /\ parPc = "idle"

Init ==
    /\ concurrency \in 1..MaxK
    /\ queue = <<>>
    /\ activeCount = 0
    /\ results = <<>>
    /\ paused = FALSE
    /\ times = <<>>
    /\ totalTasks = 0
    /\ handler = "unset"
    /\ inflight = {}
    /\ dispatched = <<>>
    /\ settled = <<>>
    /\ errorLog = <<>>
    /\ progressLog = <<>>
    /\ completeLog = <<>>
    /\ noBatch
    /\ noFile
    /\ noHex
    /\ noOrganize
    /\ noFault
    /\ noPool
    /\ noParallel

\* variant: totalTasks is overwritten instead of accumulated
add_OverwritesTotal(n) ==
    /\ Len(queue) + Len(dispatched) + n <= MaxItems
    /\ queue' = queue \o NewItems(Len(queue) + Len(dispatched), n)
    /\ totalTasks' = n
    /\ UNCHANGED <<concurrency, activeCount, results, paused, times, handler,
                   inflight, dispatched, settled, errorLog, progressLog,
                   completeLog>>
    /\ UNCHANGED <<tuneVars, fileVars, hexVars, orgVars, faultVars, poolVars,
                   parVars>>

\* add(items) with n = items.length
add(n) ==
    /\ totalTasks + n <= MaxItems
    /\ queue' = queue \o NewItems(totalTasks, n)
    /\ totalTasks' = totalTasks + n
    /\ UNCHANGED <<concurrency, activeCount, results, paused, times, handler,
                   inflight, dispatched, settled, errorLog, progressLog,
                   completeLog>>
    /\ UNCHANGED <<tuneVars, fileVars, hexVars, orgVars, faultVars, poolVars,
                   parVars>>

\* start(handler), invoked once per queue
start ==
    /\ handler = "unset"
    /\ handler' = "set"
    /\ process(activeCount, results, inflight, settled, errorLog)
    /\ UNCHANGED <<concurrency, results, paused, times, totalTasks, settled,
                   errorLog, progressLog>>
    /\ UNCHANGED <<tuneVars, fileVars, hexVars, orgVars, faultVars, poolVars,
                   parVars>>

\* variant: the result is stored at its submission position
pushResult_BySubmission(res, r) ==
    SelectSeq(res, LAMBDA x : x < r) \o <<r>> \o SelectSeq(res, LAMBDA x : x > r)

\* this.results.push(result)
pushResult(res, r) == Append(res, r)

\* variant: the settling task is still counted as active
progressEvent_CountsSettling(res, ac, q, ts) ==
    [completed |-> Len(res), total |-> totalTasks, active |-> ac + 1,
     queueLen |-> Len(q), avgTime |-> getAverageTime(ts)]

\* stats object passed to onProgress
progressEvent(res, ac, q, ts) ==
    [completed |-> Len(res), total |-> totalTasks, active |-> ac,
     queueLen |-> Len(q), avgTime |-> getAverageTime(ts)]

\* .then callback: the handler of item i resolved after d ms
settleOk(i, d) ==
    /\ i \in inflight
    /\ LET res == pushResult(results, i)
           ts == pushTime(times, d)
           ac == activeCount - 1
           st == Append(settled, i)
       IN  /\ results' = res
           /\ times' = ts
           /\ settled' = st
           /\ progressLog' =
                 Append(progressLog, progressEvent(res, ac, queue, ts))
           /\ process(ac, res, inflight \ {i}, st, errorLog)
    /\ UNCHANGED <<concurrency, paused, totalTasks, handler, errorLog>>
    /\ UNCHANGED <<tuneVars, fileVars, hexVars, orgVars, faultVars, poolVars,
                   parVars>>

\* variant: the rejection is recorded as a result
settleFail_PushesResult(i) ==
    /\ i \in inflight
    /\ LET st == Append(settled, i)
           el == Append(errorLog, i)
           res == pushResult(results, i)
       IN  /\ errorLog' = el
           /\ settled' = st
           /\ results' = res
           /\ process(activeCount - 1, res, inflight \ {i}, st, el)
    /\ UNCHANGED <<concurrency, paused, times, totalTasks, handler,
                   progressLog>>
    /\ UNCHANGED <<tuneVars, fileVars, hexVars, orgVars, faultVars, poolVars,
                   parVars>>

\* variant: the rejection does not release its slot
settleFail_NoDecrement(i) ==
    /\ i \in inflight
    /\ LET st == Append(settled, i)
           el == Append(errorLog, i)
       IN  /\ errorLog' = el
           /\ settled' = st
           /\ process(activeCount, results, inflight \ {i}, st, el)
    /\ UNCHANGED <<concurrency, results, paused, times, totalTasks, handler,
                   progressLog>>
    /\ UNCHANGED <<tuneVars, fileVars, hexVars, orgVars, faultVars, poolVars,
                   parVars>>

\* variant: the rejection does not trigger process()
settleFail_NoProcess(i) ==
    /\ i \in inflight
    /\ errorLog' = Append(errorLog, i)
    /\ settled' = Append(settled, i)
    /\ activeCount' = activeCount - 1
    /\ inflight' = inflight \ {i}
    /\ UNCHANGED <<concurrency, queue, results, paused, times, totalTasks,
                   handler, dispatched, progressLog, completeLog>>
    /\ UNCHANGED <<tuneVars, fileVars, hexVars, orgVars, faultVars, poolVars,
                   parVars>>

\* .catch callback: the handler of item i rejected
settleFail(i) ==
    /\ i \in inflight
    /\ LET st == Append(settled, i)
           el == Append(errorLog, i)
       IN  /\ errorLog' = el
           /\ settled' = st
           /\ process(activeCount - 1, results, inflight \ {i}, st, el)
    /\ UNCHANGED <<concurrency, results, paused, times, totalTasks, handler,
                   progressLog>>
    /\ UNCHANGED <<tuneVars, fileVars, hexVars, orgVars, faultVars, poolVars,
                   parVars>>

Next ==
    \/ \E n \in 1..MaxItems : add(n)
    \/ start
    \/ \E i \in 1..MaxItems, d \in 1..MaxDuration : settleOk(i, d)
    \/ \E i \in 1..MaxItems : settleFail(i)

Spec == Init /\ [][Next]_vars

(* The protocol of analyzeFiles and organizeFiles: one batch is enqueued    *)
(* with add() and then started; nothing is added once start() has run.     *)
batchAdd(n) == handler = "unset" /\ add(n)

BatchNext ==
    \/ \E n \in 1..MaxItems : batchAdd(n)
    \/ start
    \/ \E i \in 1..MaxItems, d \in 1..MaxDuration : settleOk(i, d)
    \/ \E i \in 1..MaxItems : settleFail(i)

BatchSpec == Init /\ [][BatchNext]_vars

\* some dispatched handler settles (resolves or rejects)
settle ==
    \/ \E i \in 1..MaxItems, d \in 1..MaxDuration : settleOk(i, d)
    \/ \E i \in 1..MaxItems : settleFail(i)

\* a batch every dispatched handler of which eventually settles
FairBatchSpec == BatchSpec /\ WF_vars(settle)
(* ------------------------------ claims --------------------------------- *)
LastOf(s) == s[Len(s)]

\* C1: the scheduler never exceeds its concurrency limit: activeCount is at
\* most the limit in every reachable state, and so is the active count
\* reported by every progress event.
C1_NeverExceedsLimit ==
    /\ activeCount <= concurrency
    /\ Cardinality(inflight) <= concurrency
    /\ \A x \in 1..Len(progressLog) : progressLog[x].active <= concurrency

\* the limit binds: every slot is taken, an item waits, progress was reported
C1_Witness ==
    /\ activeCount = concurrency
    /\ Len(queue) > 0
    /\ Len(progressLog) > 0
    /\ errorLog # <<>>

\* C2: a batch that is added and then started once, all of whose handlers
\* eventually settle, invokes onComplete exactly once: never twice, and
\* once start() has run it is eventually invoked.
C2_CompleteExactlyOnce ==
    /\ [](Len(completeLog) <= 1)
    /\ (handler = "set") ~> (Len(completeLog) = 1)

\* a batch of several items, some rejected, has completed
C2_Witness ==
    /\ Len(completeLog) = 1
    /\ totalTasks >= 3
    /\ errorLog # <<>>
    /\ results # <<>>

\* C3: whenever onComplete is invoked, activeCount is 0, the queue is empty,
\* no handler invocation is in flight, and every enqueued item has been
\* dispatched and has settled, as a recorded success or a dropped rejection.
C3_CompleteOnlyWhenDrained ==
    \A x \in 1..Len(completeLog) :
        LET e == completeLog[x]
        IN  /\ e.activeCount = 0
            /\ e.queueLen = 0
            /\ e.inflight = {}
            /\ Len(e.settled) = e.total
            /\ Range(e.settled) = 1..e.total
            /\ Range(e.results) \cup Range(e.rejected) = 1..e.total
            /\ Range(e.results) \cap Range(e.rejected) = {}

\* onComplete was invoked for a batch larger than the limit
C3_Witness ==
    /\ Len(completeLog) >= 1
    /\ completeLog[1].total > concurrency
    /\ concurrency >= 2

\* C4: onProgress is fired after every settlement, rejections included: the
\* number of progress events equals the number of settled tasks.
C4_ProgressPerSettlement == Len(progressLog) = Len(settled)

\* the successes of a settlement history st whose rejections are el
Successes(st, el) == SelectSeq(st, LAMBDA x : x \notin Range(el))

\* C5: a rejected handler releases its slot and is not recorded in results;
\* the items still queued are dispatched and the batch completes, with
\* as many results as items enqueued minus handlers rejected.
C5_RejectionIsolated ==
    /\ [](Range(errorLog) \cap Range(results) = {})
    /\ [](activeCount = Len(dispatched) - Len(results) - Len(errorLog))
    /\ [](\A x \in 1..Len(completeLog) :
            Len(completeLog[x].results) =
                completeLog[x].total - Len(completeLog[x].rejected))
    /\ (errorLog # <<>>) ~>
           (Len(completeLog) = 1 /\ Len(dispatched) = totalTasks)

\* a batch completed although its first dispatched item was rejected while
\* later items were still queued
C5_Witness ==
    /\ Len(completeLog) = 1
    /\ Len(errorLog) >= 2
    /\ settled # <<>> /\ settled[1] \in Range(errorLog)
    /\ totalTasks > concurrency
    /\ Len(results) = totalTasks - Len(errorLog)

\* C6: results is in completion order: it lists the successful items in the
\* order in which their handlers settled, whatever the submission order.
C6_ResultsInCompletionOrder ==
    /\ results = Successes(settled, errorLog)
    /\ \A x \in 1..Len(completeLog) :
          completeLog[x].results =
              Successes(completeLog[x].settled, completeLog[x].rejected)

\* onComplete received results that are not in submission order
C6_Witness ==
    /\ Len(completeLog) = 1
    /\ \E a, b \in 1..Len(completeLog[1].results) :
          a < b /\ completeLog[1].results[a] > completeLog[1].results[b]

\* C7: from one progress event to the next the reported completed count
\* does not decrease, and the reported total is the number of items
\* enqueued so far.
C7_ProgressMonotone ==
    [][Len(progressLog') > Len(progressLog) =>
          /\ LastOf(progressLog').total = Len(queue') + Len(dispatched')
          /\ Len(progressLog) > 0 =>
                LastOf(progressLog).completed <= LastOf(progressLog').completed
      ]_vars

\* several progress events, with a rejection and an add() between them
C7_Witness ==
    /\ Len(progressLog) >= 2
    /\ progressLog[1].total < LastOf(progressLog).total
    /\ errorLog # <<>>

\* C8: activeCount is the number of handler invocations started and not
\* yet settled, and is never negative.
C8_ActiveCountIsInFlight ==
    /\ activeCount = Cardinality(inflight)
    /\ activeCount >= 0

\* handlers in flight after successes and rejections
C8_Witness ==
    /\ Cardinality(inflight) >= 2
    /\ results # <<>>
    /\ errorLog # <<>>

\* C9: every add() fills free slots: once started, a call of add() leaves
\* no slot free while an item is pending.
C9_AddFillsFreeSlots ==
    [][(handler = "set" /\ totalTasks' > totalTasks) =>
          (activeCount' = concurrency \/ queue' = <<>>)]_vars

\* C10: a started batch whose handlers all settle dispatches every item
\* and fires onComplete; it is never left with a pending item and no
\* handler in flight.
C10_RunsToExhaustion ==
    /\ (handler = "set") ~>
           (queue = <<>> /\ Len(dispatched) = totalTasks /\ inflight = {}
            /\ Len(completeLog) >= 1)
    /\ [](handler = "set" /\ queue # <<>> => inflight # {})

\* a batch larger than the limit ran to exhaustion through a single slot
C10_Witness ==
    /\ concurrency = 1
    /\ totalTasks >= 3
    /\ Len(dispatched) = totalTasks
    /\ Len(completeLog) >= 1

\* C27: items are dispatched in FIFO order: the handlers have been
\* invoked in the order in which their items were enqueued, and every
\* pending item was enqueued after every dispatched one, whatever the
\* settlement order.
C27_FifoDispatch ==
    /\ \A x \in 1..Len(dispatched), y \in 1..Len(dispatched) :
           x < y => dispatched[x] < dispatched[y]
    /\ \A x \in 1..Len(dispatched), y \in 1..Len(queue) :
           dispatched[x] < queue[y]
    /\ \A x \in 1..Len(queue), y \in 1..Len(queue) :
           x < y => queue[x] < queue[y]

C27_Witness ==
    /\ Len(dispatched) >= 3
    /\ settled # <<>>
    /\ settled[1] # dispatched[1]
    /\ queue # <<>>

\* C28: the scheduler is greedy: when start() or the handling of a
\* settlement (success or rejection) has finished, no slot is free while an
\* item is pending: activeCount = K or the queue is empty.
C28_Greedy ==
    [][((handler = "unset" /\ handler' = "set") \/ settled' # settled)
           => (activeCount' = concurrency' \/ queue' = <<>>)]_vars

C28_Witness ==
    /\ errorLog # <<>>
    /\ results # <<>>
    /\ activeCount = concurrency
    /\ queue # <<>>

\* C34: task accounting is conserved: in every progress event and at
\* every completion, completed + active + queued + rejected so far = total;
\* so the completed count of a completion equals the total iff no handler
\* rejected, and total - completed is never negative.
C34_AccountingConserved ==
    [][/\ Len(progressLog') > Len(progressLog) =>
              LET e == LastOf(progressLog')
              IN  /\ e.completed + e.active + e.queueLen + Len(errorLog')
                         = e.total
                  /\ e.total - e.completed >= 0
       /\ Len(completeLog') > Len(completeLog) =>
              LET c == LastOf(completeLog')
              IN  /\ Len(c.results) + c.activeCount + c.queueLen
                         + Len(c.rejected) = c.total
                  /\ (Len(c.results) = c.total) <=> (c.rejected = <<>>)
                  /\ c.total - Len(c.results) >= 0]_vars

\* a progress event after a rejection, with tasks active and queued, and a
\* completion of a batch with a rejection
C34_Witness ==
    /\ \E x \in 1..Len(progressLog) :
           /\ progressLog[x].active > 0
           /\ progressLog[x].queueLen > 0
           /\ progressLog[x].completed + progressLog[x].active
                  + progressLog[x].queueLen < progressLog[x].total
    /\ completeLog # <<>>
    /\ LastOf(completeLog).rejected # <<>>
    /\ LastOf(completeLog).results # <<>>

(* ------------- a run longer than the latency window -------------------- *)
MaxExtra == 2

MaxRejected == 1

\* the number of items of the run: more than the window holds
LongRun == WindowSize + MaxExtra

\* new DynamicTaskQueue(1)
WindowInit ==
    /\ concurrency = 1
    /\ queue = <<>>
    /\ activeCount = 0
    /\ results = <<>>
    /\ paused = FALSE
    /\ times = <<>>
    /\ totalTasks = 0
    /\ handler = "unset"
    /\ inflight = {}
    /\ dispatched = <<>>
    /\ settled = <<>>
    /\ errorLog = <<>>
    /\ progressLog = <<>>
    /\ completeLog = <<>>
    /\ noBatch
    /\ noFile
    /\ noHex
    /\ noOrganize
    /\ noFault
    /\ noPool
    /\ noParallel

\* add(items) with LongRun items, before start()
addLong ==
    /\ handler = "unset"
    /\ totalTasks = 0
    /\ queue' = queue \o NewItems(totalTasks, LongRun)
    /\ totalTasks' = totalTasks + LongRun
    /\ UNCHANGED <<concurrency, activeCount, results, paused, times, handler,
                   inflight, dispatched, settled, errorLog, progressLog,
                   completeLog>>
    /\ UNCHANGED <<tuneVars, fileVars, hexVars, orgVars, faultVars, poolVars,
                   parVars>>

\* Date.now() - start of the handler of item i: here i ms, so that the
\* durations of different items differ
taskDuration(i) == i

\* the handler of some item resolves
resolveTimed == \E i \in 1..LongRun : settleOk(i, taskDuration(i))

\* the handler of some item rejects, at most MaxRejected times in a run
rejectSome ==
    /\ Len(errorLog) < MaxRejected
    /\ \E i \in 1..LongRun : settleFail(i)

WindowNext ==
    \/ addLong
    \/ start
    \/ resolveTimed
    \/ rejectSome

WindowSpec == WindowInit /\ [][WindowNext]_vars

\* the durations recorded so far, in settlement order
recordedDurations == [x \in 1..Len(results) |-> taskDuration(results[x])]

lesser(a, b) == IF a < b THEN a ELSE b

\* C29: the latency window never holds more than 50 durations and holds the
\* most recent ones: times is the sequence of the last min(50, s) recorded
\* durations in settlement order, s being the number of recorded
\* settlements; dispatch and completion are the same whatever it holds: the
\* number of handlers invoked is min(total, settled + K) and the batch has
\* completed iff every item has settled.
C29_LatencyWindow ==
    LET s == Len(recordedDurations)
        n == lesser(50, s)
    IN  /\ Len(times) <= 50
        /\ times = [x \in 1..n |-> recordedDurations[s - n + x]]
        /\ handler = "set" =>
               /\ Len(dispatched)
                      = lesser(totalTasks, Len(settled) + concurrency)
               /\ completeLog # <<>> <=> Len(settled) = totalTasks

C29_Witness ==
    /\ Len(results) > 50
    /\ errorLog # <<>>
    /\ Len(times) = 50
    /\ times[1] # results[1]

(* ---------------- analyzeFiles: concurrency tuning ---------------------- *)
\* file sizes tried, around the two tier boundaries
SizeChoices ==
    {0, 1, MiB - 1, MiB, MiB + 1, LargeMiB * MiB - 1, LargeMiB * MiB,
     LargeMiB * MiB + 1, 2 * LargeMiB * MiB}

\* the batches tried: 1..MaxBatch files (an empty selection returns early)
Batches == UNION {[1..n -> SizeChoices] : n \in 1..MaxBatch}

\* avgSize = totalSize / totalFiles, kept as the exact fraction num/den
avgSize(szs) == [num |-> Sum(szs), den |-> Len(szs)]

\* variant: the tiers as written in the README snippet (if / if / else)
tuneConcurrency_IfIfElse(avg) ==
    IF avg.num > LargeMiB * MiB * avg.den THEN 4 ELSE 32

\* the tuning profile: 128, 4 or 32 from the average file size
tuneConcurrency(avg) ==
    IF avg.num < MiB * avg.den THEN 128
    ELSE IF avg.num > LargeMiB * MiB * avg.den THEN 4
    ELSE 32

\* frame of the steps that leave the task queue as constructed
queueUntouched ==
    UNCHANGED <<queue, activeCount, results, paused, times, totalTasks,
                handler, inflight, dispatched, settled, errorLog,
                progressLog, completeLog>>

TuneInit ==
    /\ concurrency = 4
    /\ queue = <<>>
    /\ activeCount = 0
    /\ results = <<>>
    /\ paused = FALSE
    /\ times = <<>>
    /\ totalTasks = 0
    /\ handler = "unset"
    /\ inflight = {}
    /\ dispatched = <<>>
    /\ settled = <<>>
    /\ errorLog = <<>>
    /\ progressLog = <<>>
    /\ completeLog = <<>>
    /\ sizes \in Batches
    /\ tuned = 0
    /\ batch = <<>>
    /\ noFile
    /\ noHex
    /\ noOrganize
    /\ noFault
    /\ noPool
    /\ noParallel

\* analyzeFiles up to new DynamicTaskQueue(concurrency)
tune ==
    /\ tuned = 0
    /\ sizes # <<>>
    /\ tuned' = tuneConcurrency(avgSize(sizes))
    /\ concurrency' = tuneConcurrency(avgSize(sizes))
    /\ queueUntouched
    /\ UNCHANGED <<sizes, batch, fileVars, hexVars, orgVars, faultVars, poolVars,
                   parVars>>

TuneNext == tune

TuneSpec == TuneInit /\ [][TuneNext]_vars

LowerHexDigits ==
    <<"0", "1", "2", "3", "4", "5", "6", "7", "8", "9",
      "a", "b", "c", "d", "e", "f">>

LowerLetters ==
    <<"a", "b", "c", "d", "e", "f", "g", "h", "i", "j", "k", "l", "m",
      "n", "o", "p", "q", "r", "s", "t", "u", "v", "w", "x", "y", "z">>

UpperLetters ==
    <<"A", "B", "C", "D", "E", "F", "G", "H", "I", "J", "K", "L", "M",
      "N", "O", "P", "Q", "R", "S", "T", "U", "V", "W", "X", "Y", "Z">>

\* String.prototype.toUpperCase, one character
upperChar(c) ==
    IF \E k \in 1..26 : LowerLetters[k] = c
    THEN UpperLetters[CHOOSE k \in 1..26 : LowerLetters[k] = c]
    ELSE c

\* String.prototype.toLowerCase, one character
lowerChar(c) ==
    IF \E k \in 1..26 : UpperLetters[k] = c
    THEN LowerLetters[CHOOSE k \in 1..26 : UpperLetters[k] = c]
    ELSE c

toUpperCase(s) == [x \in 1..Len(s) |-> upperChar(s[x])]

toLowerCase(s) == [x \in 1..Len(s) |-> lowerChar(s[x])]

\* b.toString(16): one or two lowercase digits
toString16(b) ==
    IF b < 16 THEN <<LowerHexDigits[b + 1]>>
    ELSE <<LowerHexDigits[(b \div 16) + 1], LowerHexDigits[(b % 16) + 1]>>

\* variant: no padding, a byte below 16 gives one digit
padStart2_NoPadding(s) == s

\* s.padStart(2, '0')
padStart2(s) == IF Len(s) < 2 THEN <<"0">> \o s ELSE s

\* bytesToHex(bytes): two uppercase digits per byte
RECURSIVE bytesToHex(_)
bytesToHex(bytes) ==
    IF bytes = <<>> THEN <<>>
    ELSE toUpperCase(padStart2(toString16(Head(bytes))))
             \o bytesToHex(Tail(bytes))

\* bytes.slice(0, n), hex.substring(0, n)
sliceTo(s, n) == SubSeq(s, 1, IF Len(s) < n THEN Len(s) ELSE n)

\* hex.startsWith(p)
startsWith(s, p) == Len(p) <= Len(s) /\ SubSeq(s, 1, Len(p)) = p

(* ------------------------- signature tables ----------------------------- *)
\* magicDatabase of the web application (description omitted)
magicDatabase == <<
    [hex |-> <<"8", "9", "5", "0", "4", "E", "4", "7">>,
     type |-> "PNG", category |-> "Image",
     extensions |-> <<<<".", "p", "n", "g">>>>],
    [hex |-> <<"F", "F", "D", "8", "F", "F", "E", "0">>,
     type |-> "JPEG", category |-> "Image",
     extensions |-> <<<<".", "j", "p", "g">>, <<".", "j", "p", "e", "g">>>>],
    [hex |-> <<"F", "F", "D", "8", "F", "F", "E", "1">>,
     type |-> "JPEG", category |-> "Image",
     extensions |-> <<<<".", "j", "p", "g">>, <<".", "j", "p", "e", "g">>>>],
    [hex |-> <<"F", "F", "D", "8", "F", "F", "D", "B">>,
     type |-> "JPEG", category |-> "Image",
     extensions |-> <<<<".", "j", "p", "g">>, <<".", "j", "p", "e", "g">>>>],
    [hex |-> <<"F", "F", "D", "8", "F", "F", "E", "E">>,
     type |-> "JPEG", category |-> "Image",
     extensions |-> <<<<".", "j", "p", "g">>, <<".", "j", "p", "e", "g">>>>],
    [hex |-> <<"4", "7", "4", "9", "4", "6", "3", "8">>,
     type |-> "GIF", category |-> "Image",
     extensions |-> <<<<".", "g", "i", "f">>>>],
    [hex |-> <<"4", "2", "4", "D">>,
     type |-> "BMP", category |-> "Image",
     extensions |-> <<<<".", "b", "m", "p">>>>],
    [hex |-> <<"3", "8", "4", "2", "5", "0", "5", "3">>,
     type |-> "PSD", category |-> "Image",
     extensions |-> <<<<".", "p", "s", "d">>>>],
    [hex |-> <<"4", "9", "4", "9", "2", "A", "0", "0">>,
     type |-> "TIFF", category |-> "Image",
     extensions |-> <<<<".", "t", "i", "f", "f">>, <<".", "t", "i", "f">>>>],
    [hex |-> <<"4", "D", "4", "D", "0", "0", "2", "A">>,
     type |-> "TIFF", category |-> "Image",
     extensions |-> <<<<".", "t", "i", "f", "f">>, <<".", "t", "i", "f">>>>],
    [hex |-> <<"0", "0", "0", "0", "0", "1", "0", "0">>,
     type |-> "ICO", category |-> "Image",
     extensions |-> <<<<".", "i", "c", "o">>>>],
    [hex |-> <<"5", "2", "4", "9", "4", "6", "4", "6">>,
     type |-> "WEBP/WAV/AVI", category |-> "Media",
     extensions |-> <<<<".", "w", "e", "b", "p">>, <<".", "w", "a", "v">>, <<".", "a", "v", "i">>>>],
    [hex |-> <<"2", "5", "5", "0", "4", "4", "4", "6">>,
     type |-> "PDF", category |-> "Document",
     extensions |-> <<<<".", "p", "d", "f">>>>],
    [hex |-> <<"D", "0", "C", "F", "1", "1", "E", "0", "A", "1", "B", "1", "1", "A", "E", "1">>,
     type |-> "DOC/XLS/PPT", category |-> "Document",
     extensions |-> <<<<".", "d", "o", "c">>, <<".", "x", "l", "s">>, <<".", "p", "p", "t">>>>],
    [hex |-> <<"5", "0", "4", "B", "0", "3", "0", "4">>,
     type |-> "ZIP/DOCX/XLSX", category |-> "Archive",
     extensions |-> <<<<".", "z", "i", "p">>, <<".", "d", "o", "c", "x">>, <<".", "x", "l", "s", "x">>, <<".", "p", "p", "t", "x">>, <<".", "j", "a", "r">>, <<".", "a", "p", "k">>>>],
    [hex |-> <<"5", "0", "4", "B", "0", "5", "0", "6">>,
     type |-> "ZIP", category |-> "Archive",
     extensions |-> <<<<".", "z", "i", "p">>>>],
    [hex |-> <<"5", "0", "4", "B", "0", "7", "0", "8">>,
     type |-> "ZIP", category |-> "Archive",
     extensions |-> <<<<".", "z", "i", "p">>>>],
    [hex |-> <<"7", "B", "5", "C", "7", "2", "7", "4", "6", "6">>,
     type |-> "RTF", category |-> "Document",
     extensions |-> <<<<".", "r", "t", "f">>>>],
    [hex |-> <<"5", "2", "6", "1", "7", "2", "2", "1">>,
     type |-> "RAR", category |-> "Archive",
     extensions |-> <<<<".", "r", "a", "r">>>>],
    [hex |-> <<"3", "7", "7", "A", "B", "C", "A", "F", "2", "7", "1", "C">>,
     type |-> "7Z", category |-> "Archive",
     extensions |-> <<<<".", "7", "z">>>>],
    [hex |-> <<"1", "F", "8", "B">>,
     type |-> "GZIP", category |-> "Archive",
     extensions |-> <<<<".", "g", "z">>, <<".", "g", "z", "i", "p">>>>],
    [hex |-> <<"4", "2", "5", "A", "6", "8">>,
     type |-> "BZ2", category |-> "Archive",
     extensions |-> <<<<".", "b", "z", "2">>>>],
    [hex |-> <<"F", "D", "3", "7", "7", "A", "5", "8", "5", "A", "0", "0">>,
     type |-> "XZ", category |-> "Archive",
     extensions |-> <<<<".", "x", "z">>>>],
    [hex |-> <<"1", "F", "9", "D">>,
     type |-> "Z", category |-> "Archive",
     extensions |-> <<<<".", "z">>>>],
    [hex |-> <<"4", "9", "4", "4", "3", "3">>,
     type |-> "MP3", category |-> "Audio",
     extensions |-> <<<<".", "m", "p", "3">>>>],
    [hex |-> <<"F", "F", "F", "B">>,
     type |-> "MP3", category |-> "Audio",
     extensions |-> <<<<".", "m", "p", "3">>>>],
    [hex |-> <<"F", "F", "F", "3">>,
     type |-> "MP3", category |-> "Audio",
     extensions |-> <<<<".", "m", "p", "3">>>>],
    [hex |-> <<"F", "F", "F", "2">>,
     type |-> "MP3", category |-> "Audio",
     extensions |-> <<<<".", "m", "p", "3">>>>],
    [hex |-> <<"6", "6", "4", "C", "6", "1", "4", "3">>,
     type |-> "FLAC", category |-> "Audio",
     extensions |-> <<<<".", "f", "l", "a", "c">>>>],
    [hex |-> <<"4", "F", "6", "7", "6", "7", "5", "3">>,
     type |-> "OGG", category |-> "Audio",
     extensions |-> <<<<".", "o", "g", "g">>>>],
    [hex |-> <<"1", "A", "4", "5", "D", "F", "A", "3">>,
     type |-> "MKV/WEBM", category |-> "Video",
     extensions |-> <<<<".", "m", "k", "v">>, <<".", "w", "e", "b", "m">>>>],
    [hex |-> <<"4", "6", "4", "C", "5", "6">>,
     type |-> "FLV", category |-> "Video",
     extensions |-> <<<<".", "f", "l", "v">>>>],
    [hex |-> <<"0", "0", "0", "0", "0", "1", "B", "A">>,
     type |-> "MPEG", category |-> "Video",
     extensions |-> <<<<".", "m", "p", "g">>, <<".", "m", "p", "e", "g">>>>],
    [hex |-> <<"0", "0", "0", "0", "0", "1", "B", "3">>,
     type |-> "MPEG", category |-> "Video",
     extensions |-> <<<<".", "m", "p", "g">>, <<".", "m", "p", "e", "g">>>>],
    [hex |-> <<"0", "0", "0", "0", "0", "0", "1", "8">>,
     type |-> "MP4", category |-> "Video",
     extensions |-> <<<<".", "m", "p", "4">>, <<".", "m", "4", "v">>>>],
    [hex |-> <<"0", "0", "0", "0", "0", "0", "2", "0">>,
     type |-> "MP4", category |-> "Video",
     extensions |-> <<<<".", "m", "p", "4">>, <<".", "m", "4", "v">>>>],
    [hex |-> <<"0", "0", "0", "0", "0", "0", "1", "C">>,
     type |-> "MP4", category |-> "Video",
     extensions |-> <<<<".", "m", "p", "4">>, <<".", "m", "4", "v">>>>],
    [hex |-> <<"4", "D", "5", "A">>,
     type |-> "EXE/DLL", category |-> "Executable",
     extensions |-> <<<<".", "e", "x", "e">>, <<".", "d", "l", "l">>, <<".", "s", "y", "s">>>>],
    [hex |-> <<"7", "F", "4", "5", "4", "C", "4", "6">>,
     type |-> "ELF", category |-> "Executable",
     extensions |-> <<<<>>>>],
    [hex |-> <<"C", "A", "F", "E", "B", "A", "B", "E">>,
     type |-> "CLASS", category |-> "Executable",
     extensions |-> <<<<".", "c", "l", "a", "s", "s">>>>],
    [hex |-> <<"F", "E", "E", "D", "F", "A", "C", "E">>,
     type |-> "MACH-O", category |-> "Executable",
     extensions |-> <<<<>>>>],
    [hex |-> <<"F", "E", "E", "D", "F", "A", "C", "F">>,
     type |-> "MACH-O", category |-> "Executable",
     extensions |-> <<<<>>>>],
    [hex |-> <<"6", "4", "6", "5", "7", "8", "0", "A">>,
     type |-> "DEX", category |-> "Executable",
     extensions |-> <<<<".", "d", "e", "x">>>>],
    [hex |-> <<"5", "3", "5", "1", "4", "C", "6", "9", "7", "4", "6", "5", "2", "0", "6", "6", "6", "F", "7", "2", "6", "D", "6", "1", "7", "4">>,
     type |-> "SQLITE", category |-> "Database",
     extensions |-> <<<<".", "d", "b">>, <<".", "s", "q", "l", "i", "t", "e">>, <<".", "s", "q", "l", "i", "t", "e", "3">>>>],
    [hex |-> <<"3", "C", "3", "F", "7", "8", "6", "D", "6", "C">>,
     type |-> "XML", category |-> "Data",
     extensions |-> <<<<".", "x", "m", "l">>>>],
    [hex |-> <<"3", "C", "2", "1", "4", "4", "4", "F", "4", "3", "5", "4", "5", "9", "5", "0">>,
     type |-> "HTML", category |-> "Web",
     extensions |-> <<<<".", "h", "t", "m", "l">>, <<".", "h", "t", "m">>>>],
    [hex |-> <<"3", "C", "6", "8", "7", "4", "6", "D", "6", "C">>,
     type |-> "HTML", category |-> "Web",
     extensions |-> <<<<".", "h", "t", "m", "l">>, <<".", "h", "t", "m">>>>],
    [hex |-> <<"3", "C", "2", "1", "6", "4", "6", "F", "6", "3">>,
     type |-> "HTML", category |-> "Web",
     extensions |-> <<<<".", "h", "t", "m", "l">>, <<".", "h", "t", "m">>>>],
    [hex |-> <<"0", "0", "0", "1", "0", "0", "0", "0">>,
     type |-> "TTF", category |-> "Font",
     extensions |-> <<<<".", "t", "t", "f">>>>],
    [hex |-> <<"4", "F", "5", "4", "5", "4", "4", "F">>,
     type |-> "OTF", category |-> "Font",
     extensions |-> <<<<".", "o", "t", "f">>>>],
    [hex |-> <<"7", "7", "4", "F", "4", "6", "4", "6">>,
     type |-> "WOFF", category |-> "Font",
     extensions |-> <<<<".", "w", "o", "f", "f">>>>],
    [hex |-> <<"7", "7", "4", "F", "4", "6", "3", "2">>,
     type |-> "WOFF2", category |-> "Font",
     extensions |-> <<<<".", "w", "o", "f", "f", "2">>>>],
    [hex |-> <<"2", "5", "2", "1", "5", "0", "5", "3">>,
     type |-> "PS", category |-> "Document",
     extensions |-> <<<<".", "p", "s">>, <<".", "e", "p", "s">>>>],
    [hex |-> <<"4", "3", "4", "4", "3", "0", "3", "0", "3", "1">>,
     type |-> "ISO", category |-> "Disk",
     extensions |-> <<<<".", "i", "s", "o">>>>]>>

\* MAGIC_SIGNATURES of the web worker
MAGIC_SIGNATURES == <<
    [hex |-> <<"8", "9", "5", "0", "4", "E", "4", "7">>,
     type |-> "PNG", category |-> "Image"],
    [hex |-> <<"F", "F", "D", "8", "F", "F">>,
     type |-> "JPEG", category |-> "Image"],
    [hex |-> <<"4", "7", "4", "9", "4", "6", "3", "8">>,
     type |-> "GIF", category |-> "Image"],
    [hex |-> <<"2", "5", "5", "0", "4", "4", "4", "6">>,
     type |-> "PDF", category |-> "Document"],
    [hex |-> <<"5", "0", "4", "B", "0", "3", "0", "4">>,
     type |-> "ZIP/DOCX/XLSX", category |-> "Archive"],
    [hex |-> <<"D", "0", "C", "F", "1", "1", "E", "0">>,
     type |-> "DOC/XLS/PPT", category |-> "Document"],
    [hex |-> <<"5", "2", "6", "1", "7", "2", "2", "1">>,
     type |-> "RAR", category |-> "Archive"],
    [hex |-> <<"3", "7", "7", "A", "B", "C", "A", "F">>,
     type |-> "7Z", category |-> "Archive"],
    [hex |-> <<"1", "F", "8", "B">>,
     type |-> "GZIP", category |-> "Archive"],
    [hex |-> <<"4", "D", "5", "A">>,
     type |-> "EXE/DLL", category |-> "Executable"],
    [hex |-> <<"7", "F", "4", "5", "4", "C", "4", "6">>,
     type |-> "ELF", category |-> "Executable"],
    [hex |-> <<"4", "9", "4", "4", "3", "3">>,
     type |-> "MP3", category |-> "Audio"],
    [hex |-> <<"1", "A", "4", "5", "D", "F", "A", "3">>,
     type |-> "MKV/WEBM", category |-> "Video"],
    [hex |-> <<"0", "0", "0", "0", "0", "0", "1", "8">>,
     type |-> "MP4", category |-> "Video"],
    [hex |-> <<"0", "0", "0", "0", "0", "0", "2", "0">>,
     type |-> "MP4", category |-> "Video"]>>

\* magicDatabase of the command line analyzer as compiled in (description
\* and extensions omitted: the match loop does not read them)
cppMagicDatabase == <<
    [hex |-> <<"8", "9", "5", "0", "4", "E", "4", "7">>,
     type |-> "PNG", category |-> "Image"],
    [hex |-> <<"F", "F", "D", "8", "F", "F", "E", "0">>,
     type |-> "JPEG", category |-> "Image"],
    [hex |-> <<"F", "F", "D", "8", "F", "F", "E", "1">>,
     type |-> "JPEG", category |-> "Image"],
    [hex |-> <<"F", "F", "D", "8", "F", "F", "D", "B">>,
     type |-> "JPEG", category |-> "Image"],
    [hex |-> <<"4", "7", "4", "9", "4", "6", "3", "8">>,
     type |-> "GIF", category |-> "Image"],
    [hex |-> <<"4", "2", "4", "D">>,
     type |-> "BMP", category |-> "Image"],
    [hex |-> <<"3", "8", "4", "2", "5", "0", "5", "3">>,
     type |-> "PSD", category |-> "Image"],
    [hex |-> <<"4", "9", "4", "9", "2", "A", "0", "0">>,
     type |-> "TIFF", category |-> "Image"],
    [hex |-> <<"4", "D", "4", "D", "0", "0", "2", "A">>,
     type |-> "TIFF", category |-> "Image"],
    [hex |-> <<"0", "0", "0", "0", "0", "1", "0", "0">>,
     type |-> "ICO", category |-> "Image"],
    [hex |-> <<"0", "0", "0", "0", "0", "2", "0", "0">>,
     type |-> "CUR", category |-> "Image"],
    [hex |-> <<"2", "5", "5", "0", "4", "4", "4", "6">>,
     type |-> "PDF", category |-> "Document"],
    [hex |-> <<"D", "0", "C", "F", "1", "1", "E", "0", "A", "1", "B", "1", "1", "A", "E", "1">>,
     type |-> "DOC/XLS/PPT", category |-> "Document"],
    [hex |-> <<"5", "0", "4", "B", "0", "3", "0", "4">>,
     type |-> "ZIP/DOCX/XLSX", category |-> "Archive"],
    [hex |-> <<"5", "0", "4", "B", "0", "5", "0", "6">>,
     type |-> "ZIP", category |-> "Archive"],
    [hex |-> <<"5", "0", "4", "B", "0", "7", "0", "8">>,
     type |-> "ZIP", category |-> "Archive"],
    [hex |-> <<"7", "B", "5", "C", "7", "2", "7", "4", "6", "6">>,
     type |-> "RTF", category |-> "Document"],
    [hex |-> <<"5", "2", "6", "1", "7", "2", "2", "1">>,
     type |-> "RAR", category |-> "Archive"],
    [hex |-> <<"3", "7", "7", "A", "B", "C", "A", "F", "2", "7", "1", "C">>,
     type |-> "7Z", category |-> "Archive"],
    [hex |-> <<"1", "F", "8", "B">>,
     type |-> "GZIP", category |-> "Archive"],
    [hex |-> <<"4", "2", "5", "A", "6", "8">>,
     type |-> "BZ2", category |-> "Archive"],
    [hex |-> <<"F", "D", "3", "7", "7", "A", "5", "8", "5", "A", "0", "0">>,
     type |-> "XZ", category |-> "Archive"],
    [hex |-> <<"5", "0", "4", "B">>,
     type |-> "ZIP", category |-> "Archive"],
    [hex |-> <<"1", "F", "9", "D">>,
     type |-> "Z", category |-> "Archive"],
    [hex |-> <<"1", "F", "A", "0">>,
     type |-> "Z", category |-> "Archive"],
    [hex |-> <<"4", "9", "4", "4", "3", "3">>,
     type |-> "MP3", category |-> "Audio"],
    [hex |-> <<"F", "F", "F", "B">>,
     type |-> "MP3", category |-> "Audio"],
    [hex |-> <<"F", "F", "F", "3">>,
     type |-> "MP3", category |-> "Audio"],
    [hex |-> <<"F", "F", "F", "2">>,
     type |-> "MP3", category |-> "Audio"],
    [hex |-> <<"6", "6", "4", "C", "6", "1", "4", "3">>,
     type |-> "FLAC", category |-> "Audio"],
    [hex |-> <<"4", "F", "6", "7", "6", "7", "5", "3">>,
     type |-> "OGG", category |-> "Audio"],
    [hex |-> <<"1", "A", "4", "5", "D", "F", "A", "3">>,
     type |-> "MKV/WEBM", category |-> "Video"],
    [hex |-> <<"4", "6", "4", "C", "5", "6">>,
     type |-> "FLV", category |-> "Video"],
    [hex |-> <<"0", "0", "0", "0", "0", "1", "B", "A">>,
     type |-> "MPEG", category |-> "Video"],
    [hex |-> <<"0", "0", "0", "0", "0", "1", "B", "3">>,
     type |-> "MPEG", category |-> "Video"],
    [hex |-> <<"3", "0", "2", "6", "4", "0", "3", "2">>,
     type |-> "WMV", category |-> "Video"],
    [hex |-> <<"4", "D", "5", "A">>,
     type |-> "EXE/DLL", category |-> "Executable"],
    [hex |-> <<"7", "F", "4", "5", "4", "C", "4", "6">>,
     type |-> "ELF", category |-> "Executable"],
    [hex |-> <<"C", "A", "F", "E", "B", "A", "B", "E">>,
     type |-> "CLASS/MACH-O", category |-> "Executable"],
    [hex |-> <<"F", "E", "E", "D", "F", "A", "C", "E">>,
     type |-> "MACH-O", category |-> "Executable"],
    [hex |-> <<"F", "E", "E", "D", "F", "A", "C", "F">>,
     type |-> "MACH-O", category |-> "Executable"],
    [hex |-> <<"D", "E", "X", "0", "A">>,
     type |-> "DEX", category |-> "Executable"],
    [hex |-> <<"5", "3", "5", "1", "4", "C", "6", "9", "7", "4", "6", "5">>,
     type |-> "SQLITE", category |-> "Database"],
    [hex |-> <<"3", "C", "3", "F", "7", "8", "6", "D", "6", "C">>,
     type |-> "XML", category |-> "Data"],
    [hex |-> <<"3", "C", "2", "1", "4", "4", "4", "F", "4", "3", "5", "4", "5", "9", "5", "0">>,
     type |-> "HTML", category |-> "Web"],
    [hex |-> <<"3", "C", "6", "8", "7", "4", "6", "D", "6", "C">>,
     type |-> "HTML", category |-> "Web"],
    [hex |-> <<"7", "B">>,
     type |-> "JSON", category |-> "Data"],
    [hex |-> <<"E", "F", "B", "B", "B", "F">>,
     type |-> "UTF8-BOM", category |-> "Text"],
    [hex |-> <<"F", "F", "F", "E">>,
     type |-> "UTF16-LE", category |-> "Text"],
    [hex |-> <<"F", "E", "F", "F">>,
     type |-> "UTF16-BE", category |-> "Text"],
    [hex |-> <<"0", "0", "0", "1", "0", "0", "0", "0">>,
     type |-> "TTF", category |-> "Font"],
    [hex |-> <<"4", "F", "5", "4", "5", "4", "4", "F">>,
     type |-> "OTF", category |-> "Font"],
    [hex |-> <<"7", "7", "4", "F", "4", "6", "4", "6">>,
     type |-> "WOFF", category |-> "Font"],
    [hex |-> <<"7", "7", "4", "F", "4", "6", "3", "2">>,
     type |-> "WOFF2", category |-> "Font"],
    [hex |-> <<"2", "5", "2", "1", "5", "0", "5", "3">>,
     type |-> "PS", category |-> "Document"],
    [hex |-> <<"4", "3", "4", "4", "3", "0", "3", "0", "3", "1">>,
     type |-> "ISO", category |-> "Disk"]>>

\* extensionMap of the web application (description omitted)
extensionMap == <<
    [ext |-> <<".", "t", "x", "t">>, type |-> "Text", category |-> "Text"],
    [ext |-> <<".", "l", "o", "g">>, type |-> "Log", category |-> "Text"],
    [ext |-> <<".", "m", "d">>, type |-> "Markdown", category |-> "Text"],
    [ext |-> <<".", "c", "s", "v">>, type |-> "CSV", category |-> "Data"],
    [ext |-> <<".", "j", "s", "o", "n">>, type |-> "JSON", category |-> "Data"],
    [ext |-> <<".", "y", "a", "m", "l">>, type |-> "YAML", category |-> "Data"],
    [ext |-> <<".", "y", "m", "l">>, type |-> "YAML", category |-> "Data"],
    [ext |-> <<".", "c", "p", "p">>, type |-> "C++", category |-> "Code"],
    [ext |-> <<".", "c">>, type |-> "C", category |-> "Code"],
    [ext |-> <<".", "h">>, type |-> "Header", category |-> "Code"],
    [ext |-> <<".", "h", "p", "p">>, type |-> "Header", category |-> "Code"],
    [ext |-> <<".", "p", "y">>, type |-> "Python", category |-> "Code"],
    [ext |-> <<".", "j", "s">>, type |-> "JavaScript", category |-> "Code"],
    [ext |-> <<".", "t", "s">>, type |-> "TypeScript", category |-> "Code"],
    [ext |-> <<".", "j", "a", "v", "a">>, type |-> "Java", category |-> "Code"],
    [ext |-> <<".", "c", "s">>, type |-> "C#", category |-> "Code"],
    [ext |-> <<".", "g", "o">>, type |-> "Go", category |-> "Code"],
    [ext |-> <<".", "r", "s">>, type |-> "Rust", category |-> "Code"],
    [ext |-> <<".", "r", "b">>, type |-> "Ruby", category |-> "Code"],
    [ext |-> <<".", "s", "w", "i", "f", "t">>, type |-> "Swift", category |-> "Code"],
    [ext |-> <<".", "k", "t">>, type |-> "Kotlin", category |-> "Code"],
    [ext |-> <<".", "h", "t", "m", "l">>, type |-> "HTML", category |-> "Web"],
    [ext |-> <<".", "h", "t", "m">>, type |-> "HTML", category |-> "Web"],
    [ext |-> <<".", "c", "s", "s">>, type |-> "CSS", category |-> "Web"],
    [ext |-> <<".", "s", "c", "s", "s">>, type |-> "SCSS", category |-> "Web"],
    [ext |-> <<".", "l", "e", "s", "s">>, type |-> "LESS", category |-> "Web"],
    [ext |-> <<".", "p", "h", "p">>, type |-> "PHP", category |-> "Web"],
    [ext |-> <<".", "s", "q", "l">>, type |-> "SQL", category |-> "Database"],
    [ext |-> <<".", "s", "h">>, type |-> "Shell", category |-> "Script"],
    [ext |-> <<".", "b", "a", "s", "h">>, type |-> "Bash", category |-> "Script"],
    [ext |-> <<".", "b", "a", "t">>, type |-> "Batch", category |-> "Script"],
    [ext |-> <<".", "p", "s", "1">>, type |-> "PowerShell", category |-> "Script"],
    [ext |-> <<".", "i", "n", "i">>, type |-> "INI", category |-> "Config"],
    [ext |-> <<".", "c", "f", "g">>, type |-> "Config", category |-> "Config"],
    [ext |-> <<".", "c", "o", "n", "f">>, type |-> "Config", category |-> "Config"]>>

(* ------------------------- signature matching --------------------------- *)
\* for (const sig of db) if (hex.startsWith(sig.hex)) ... break, resumed at
\* entry k: the index of the entry taken, 0 when the loop runs out
RECURSIVE matchLoop(_, _, _)
matchLoop(hex, db, k) ==
    IF k > Len(db) THEN 0
    ELSE IF startsWith(hex, db[k].hex) THEN k
    ELSE matchLoop(hex, db, k + 1)

\* worker.js detectType(bytes)
detectType(bytes) ==
    LET hex == bytesToHex(sliceTo(bytes, 16))
        k == matchLoop(hex, MAGIC_SIGNATURES, 1)
    IN  IF k = 0 THEN [type |-> "Unknown", category |-> "Unknown"]
        ELSE [type |-> MAGIC_SIGNATURES[k].type,
              category |-> MAGIC_SIGNATURES[k].category]

Wildcard == <<".", ".", ".", ".">>

\* pattern.find("...."): 0-based position of the first "....", -1 if none
RECURSIVE findWildcard(_, _)
findWildcard(pattern, from) ==
    IF from + 4 > Len(pattern) THEN -1
    ELSE IF SubSeq(pattern, from + 1, from + 4) = Wildcard THEN from
    ELSE findWildcard(pattern, from + 1)

\* std::string::substr(pos, n), for pos <= size
substr(s, pos, n) ==
    SubSeq(s, pos + 1, IF pos + n > Len(s) THEN Len(s) ELSE pos + n)

\* analyzer.cpp: the test of one signature against the header hex
cppPatternMatches(hex, pattern) ==
    LET wildcardPos == findWildcard(pattern, 0)
    IN  IF wildcardPos # -1
        THEN /\ Len(hex) >= Len(pattern)
             /\ LET checkPattern ==
                        substr(pattern, 0, wildcardPos)
                            \o substr(hex, wildcardPos, 4)
                            \o substr(pattern, wildcardPos + 4, Len(pattern))
                IN  substr(hex, 0, Len(checkPattern)) = checkPattern
        ELSE /\ Len(hex) >= Len(pattern)
             /\ substr(hex, 0, Len(pattern)) = pattern

\* variant: the loop has no break, the last matching signature is kept
RECURSIVE cppMatchLoop_NoBreak(_, _, _)
cppMatchLoop_NoBreak(hex, db, k) ==
    IF k > Len(db) THEN 0
    ELSE LET later == cppMatchLoop_NoBreak(hex, db, k + 1)
         IN  IF later # 0 THEN later
             ELSE IF cppPatternMatches(hex, db[k].hex) THEN k
             ELSE 0

\* analyzer.cpp: for (const auto &sig : magicDatabase) ... break
RECURSIVE cppMatchLoop(_, _, _)
cppMatchLoop(hex, db, k) ==
    IF k > Len(db) THEN 0
    ELSE IF cppPatternMatches(hex, db[k].hex) THEN k
    ELSE cppMatchLoop(hex, db, k + 1)

\* analyzer.cpp analyzeFile: type and category after the match loop, for
\* the bytes read (at least 2) and the signature table in force
cppDetect(bytes, db) ==
    LET hex == bytesToHex(sliceTo(bytes, 64))
        k == cppMatchLoop(hex, db, 1)
    IN  IF k = 0
        THEN [type |-> "Unknown", category |-> "Unknown", sig |-> 0]
        ELSE [type |-> db[k].type, category |-> db[k].category, sig |-> k]

(* ------------------------------ entropy --------------------------------- *)
(* Floating point values are modelled in fixed point: Math.log2 carries    *)
(* FracBits fractional bits, and an entropy is the fraction num/den of two *)
(* integers.                                                               *)
FracBits == 14

RECURSIVE pow2(_)
pow2(k) == IF k = 0 THEN 1 ELSE 2 * pow2(k - 1)

One == pow2(FracBits)

RECURSIVE floorLog2(_)
floorLog2(x) == IF x < 2 THEN 0 ELSE 1 + floorLog2(x \div 2)

\* the fractional bits of log2(m / One), for One <= m < 2 * One
RECURSIVE log2Frac(_, _)
log2Frac(m, bit) ==
    IF bit = 0 THEN 0
    ELSE LET sq == (m * m) \div One
         IN  IF sq >= 2 * One
             THEN pow2(bit - 1) + log2Frac(sq \div 2, bit - 1)
             ELSE log2Frac(sq, bit - 1)

\* Math.log2(x) * One for an integer x >= 1
log2Fixed(x) ==
    LET k == floorLog2(x)
    IN  k * One + log2Frac((x * One) \div pow2(k), FracBits)

\* freq[v] after the counting loop
freqOf(bytes, v) == Cardinality({x \in 1..Len(bytes) : bytes[x] = v})

\* the sum of -p * Math.log2(p) * len * One over the byte values lo..hi,
\* where p = freq / len: freq * (log2(len) - log2(freq)) for each value
\* that occurs
RECURSIVE entropySum(_, _, _, _)
entropySum(bytes, lo, hi, len) ==
    IF lo = hi
    THEN LET f == freqOf(bytes, lo)
         IN  IF f > 0 THEN f * (log2Fixed(len) - log2Fixed(f)) ELSE 0
    ELSE LET mid == (lo + hi) \div 2
         IN  entropySum(bytes, lo, mid, len)
                 + entropySum(bytes, mid + 1, hi, len)

\* variant: p is taken over the 256 buckets instead of over the length
calculateEntropy_PerBucket(bytes) ==
    IF Len(bytes) = 0 THEN [num |-> 0, den |-> 1]
    ELSE [num |-> entropySum(bytes, 0, 255, 256),
          den |-> Len(bytes) * One]

\* calculateEntropy(bytes), in bits per byte
calculateEntropy(bytes) ==
    IF Len(bytes) = 0 THEN [num |-> 0, den |-> 1]
    ELSE [num |-> entropySum(bytes, 0, 255, Len(bytes)),
          den |-> Len(bytes) * One]

\* variant: a single threshold, the label High starts where the flag does
getEntropyLevel_At75(entropy) ==
    IF entropy.num < 4 * entropy.den THEN "Low"
    ELSE IF 2 * entropy.num < 15 * entropy.den THEN "Medium"
    ELSE "High"

\* getEntropyLevel(entropy).level
getEntropyLevel(entropy) ==
    IF entropy.num < 4 * entropy.den THEN "Low"
    ELSE IF entropy.num < 7 * entropy.den THEN "Medium"
    ELSE "High"

\* result.entropy >= 7.5
isEncryptedEntropy(entropy) == 2 * entropy.num >= 15 * entropy.den

(* ----------------------------- analyzeFile ------------------------------ *)
\* filename.lastIndexOf('.'): 0-based, -1 if there is no dot
RECURSIVE lastIndexOfDot(_, _)
lastIndexOfDot(name, k) ==
    IF k = 0 THEN -1
    ELSE IF name[k] = "." THEN k - 1
    ELSE lastIndexOfDot(name, k - 1)

\* variant: the extension keeps the case of the name
getFileExtension_CaseSensitive(filename) ==
    LET lastDot == lastIndexOfDot(filename, Len(filename))
    IN  IF lastDot >= 0
        THEN SubSeq(filename, lastDot + 1, Len(filename))
        ELSE <<>>

\* getFileExtension(filename)
getFileExtension(filename) ==
    LET lastDot == lastIndexOfDot(filename, Len(filename))
    IN  IF lastDot >= 0
        THEN toLowerCase(SubSeq(filename, lastDot + 1, Len(filename)))
        ELSE <<>>

\* the values of result.hash: the three sentinels, or a digest
hashPending == [tag |-> "Calculating...", of |-> <<>>]

hashNA == [tag |-> "N/A", of |-> <<>>]

hashError == [tag |-> "Error", of |-> <<>>]

\* calculateSHA256(arrayBuffer): the digest is identified by its content
calculateSHA256(bytes) == [tag |-> "sha256", of |-> bytes]

\* the result object as created on entry
initialResult(f) ==
    [name |-> f.name,
     actualExtension |-> getFileExtension(f.name),
     type |-> "Unknown",
     category |-> "Unknown",
     isCorrupt |-> FALSE,
     extensionMismatch |-> FALSE,
     entropy |-> [num |-> 0, den |-> 1],
     entropyLevel |-> "Unknown",
     hash |-> hashPending,
     hexPreview |-> <<>>,
     isEncrypted |-> FALSE]

\* index in extensionMap of the entry for ext, 0 if there is none
extensionMapIndex(ext) ==
    IF \E k \in 1..Len(extensionMap) : extensionMap[k].ext = ext
    THEN CHOOSE k \in 1..Len(extensionMap) : extensionMap[k].ext = ext
    ELSE 0

\* the extension mismatch test of a matched signature
extensionMismatch(sig, actualExtension) ==
    /\ Len(sig.extensions) > 0
    /\ actualExtension # <<>>
    /\ actualExtension \notin Range(sig.extensions)

\* the result after the magic match loop over db
withMagic(result, hex, db) ==
    LET k == matchLoop(hex, db, 1)
    IN  IF k = 0 THEN result
        ELSE [result EXCEPT
                 !.type = db[k].type,
                 !.category = db[k].category,
                 !.extensionMismatch =
                     extensionMismatch(db[k], result.actualExtension)]

\* variant: the extension table overrides the type of a matched signature
withFallback_Always(result) ==
    LET k == extensionMapIndex(result.actualExtension)
    IN  IF result.actualExtension # <<>> /\ k # 0
        THEN [result EXCEPT !.type = extensionMap[k].type,
                            !.category = extensionMap[k].category]
        ELSE result

\* the result after the fallback to extension-based detection
withFallback(result) ==
    LET k == extensionMapIndex(result.actualExtension)
    IN  IF result.type = "Unknown" /\ result.actualExtension # <<>> /\ k # 0
        THEN [result EXCEPT !.type = extensionMap[k].type,
                            !.category = extensionMap[k].category]
        ELSE result

\* the catch block: the record of a file that could not be read
unreadableResult(result) ==
    [result EXCEPT !.type = "Unreadable", !.category = "Error",
                   !.isCorrupt = TRUE, !.hash = hashError]

\* the record of a file of fewer than 2 bytes
corruptResult(result) ==
    [result EXCEPT !.type = "Empty/Corrupt", !.category = "Error",
                   !.isCorrupt = TRUE, !.hash = hashNA]

\* the record of a readable file of at least 2 bytes, as resolved
analysedResult(result, bytes) ==
    LET hex == bytesToHex(sliceTo(bytes, 64))
        entropy == calculateEntropy(sliceTo(bytes, 65536))
        measured == [result EXCEPT
                        !.hexPreview = sliceTo(hex, 64),
                        !.entropy = entropy,
                        !.entropyLevel = getEntropyLevel(entropy),
                        !.isEncrypted = isEncryptedEntropy(entropy)]
    IN  withFallback(withMagic(measured, hex, magicDatabase))

\* type and category as the magic match loop leaves them
noMatch == [type |-> "Unknown", category |-> "Unknown", sig |-> 0]

magicMatch(hex, db) ==
    LET k == matchLoop(hex, db, 1)
    IN  IF k = 0 THEN noMatch
        ELSE [type |-> db[k].type, category |-> db[k].category, sig |-> k]

\* the helpers invoked on each path through analyzeFile
readCalls == {"arrayBuffer"}

measureCalls ==
    {"arrayBuffer", "bytesToHex", "calculateEntropy", "getEntropyLevel",
     "matchMagic"}

fullCalls == measureCalls \cup {"calculateSHA256"}

\* the three ways out of analyzeFile
unreadableOutcome(f) ==
    [settle |-> "resolve", result |-> unreadableResult(initialResult(f)),
     calls |-> readCalls, matched |-> noMatch, hashing |-> FALSE]

corruptOutcome(f) ==
    [settle |-> "resolve", result |-> corruptResult(initialResult(f)),
     calls |-> readCalls, matched |-> noMatch, hashing |-> FALSE]

\* variant: the digest is awaited before the record is resolved
analysedOutcome_AwaitsDigest(f) ==
    [settle |-> "resolve",
     result |-> [analysedResult(initialResult(f), f.bytes)
                     EXCEPT !.hash = calculateSHA256(f.bytes)],
     calls |-> fullCalls,
     matched |-> magicMatch(bytesToHex(sliceTo(f.bytes, 64)), magicDatabase),
     hashing |-> FALSE]

analysedOutcome(f) ==
    [settle |-> "resolve",
     result |-> analysedResult(initialResult(f), f.bytes),
     calls |-> fullCalls,
     matched |-> magicMatch(bytesToHex(sliceTo(f.bytes, 64)), magicDatabase),
     hashing |-> TRUE]

\* variant: a read error is not caught and rejects the promise
analyzeFile_NoCatch(f) ==
    IF ~f.readable
    THEN [settle |-> "reject", result |-> initialResult(f),
          calls |-> readCalls, matched |-> noMatch, hashing |-> FALSE]
    ELSE IF Len(f.bytes) < 2 THEN corruptOutcome(f)
    ELSE analysedOutcome(f)

\* variant: the size check comes after the measurements
analyzeFile_LateSizeCheck(f) ==
    IF ~f.readable THEN unreadableOutcome(f)
    ELSE IF Len(f.bytes) < 2
    THEN [settle |-> "resolve",
          result |-> corruptResult(analysedResult(initialResult(f), f.bytes)),
          calls |-> measureCalls,
          matched |->
              magicMatch(bytesToHex(sliceTo(f.bytes, 64)), magicDatabase),
          hashing |-> FALSE]
    ELSE analysedOutcome(f)

\* analyzeFile(file) up to resolve(result): how the promise settles, the
\* record it settles with, the helpers invoked, the outcome of the match
\* loop, and whether a digest computation was started and is still pending
analyzeFile(f) ==
    IF ~f.readable THEN unreadableOutcome(f)
    ELSE IF Len(f.bytes) < 2 THEN corruptOutcome(f)
    ELSE analysedOutcome(f)

(* ----------------------- worker.js: analyze task ------------------------ *)
\* onmessage, task 'analyze': detectType, calculateEntropy on the first
\* 64 KiB, calculateHash; a rejected digest is posted as a failure
workerAnalyze(f) ==
    IF f.digestOk
    THEN [success |-> TRUE,
          type |-> detectType(f.bytes).type,
          category |-> detectType(f.bytes).category,
          entropy |-> calculateEntropy(sliceTo(f.bytes, 65536)),
          hash |-> calculateSHA256(f.bytes)]
    ELSE [success |-> FALSE]

(* ----------------------- analyzer.cpp: analyzeFile ---------------------- *)
\* the fallback by extension when the match loop found nothing
cppTextExtensions ==
    {<<".", "t", "x", "t">>, <<".", "l", "o", "g">>, <<".", "m", "d">>,
     <<".", "c", "s", "v">>, <<".", "c", "f", "g">>, <<".", "i", "n", "i">>}

cppSourceExtensions ==
    {<<".", "c", "p", "p">>, <<".", "c">>, <<".", "h">>,
     <<".", "h", "p", "p">>}

cppFallback(type, category, ext) ==
    IF type # "Unknown" THEN [type |-> type, category |-> category]
    ELSE IF ext \in cppTextExtensions
    THEN [type |-> "Text", category |-> "Text"]
    ELSE IF ext \in cppSourceExtensions
    THEN [type |-> "Source Code", category |-> "Code"]
    ELSE IF ext = <<".", "p", "y">>
    THEN [type |-> "Python", category |-> "Code"]
    ELSE IF ext = <<".", "j", "s">>
    THEN [type |-> "JavaScript", category |-> "Code"]
    ELSE IF ext = <<".", "j", "a", "v", "a">>
    THEN [type |-> "Java", category |-> "Code"]
    ELSE IF ext \in {<<".", "h", "t", "m", "l">>, <<".", "h", "t", "m">>}
    THEN [type |-> "HTML", category |-> "Web"]
    ELSE IF ext = <<".", "c", "s", "s">>
    THEN [type |-> "CSS", category |-> "Web"]
    ELSE [type |-> type, category |-> category]

\* validExtensions, each entry under the type name whose lower-cased
\* spelling is its key
validExtensions == <<
    [type |-> "PNG", valid |-> <<<<".", "p", "n", "g">>>>],
    [type |-> "JPEG",
     valid |-> <<<<".", "j", "p", "g">>, <<".", "j", "p", "e", "g">>>>],
    [type |-> "GIF", valid |-> <<<<".", "g", "i", "f">>>>],
    [type |-> "BMP", valid |-> <<<<".", "b", "m", "p">>>>],
    [type |-> "PDF", valid |-> <<<<".", "p", "d", "f">>>>],
    [type |-> "ZIP/DOCX/XLSX",
     valid |-> <<<<".", "z", "i", "p">>, <<".", "d", "o", "c", "x">>,
                 <<".", "x", "l", "s", "x">>, <<".", "p", "p", "t", "x">>,
                 <<".", "o", "d", "t">>, <<".", "j", "a", "r">>,
                 <<".", "a", "p", "k">>>>],
    [type |-> "ZIP",
     valid |-> <<<<".", "z", "i", "p">>, <<".", "j", "a", "r">>,
                 <<".", "a", "p", "k">>>>],
    [type |-> "RAR", valid |-> <<<<".", "r", "a", "r">>>>],
    [type |-> "7Z", valid |-> <<<<".", "7", "z">>>>],
    [type |-> "MP3", valid |-> <<<<".", "m", "p", "3">>>>],
    [type |-> "MP4", valid |-> <<<<".", "m", "p", "4">>, <<".", "m", "4", "v">>>>],
    [type |-> "MKV/WEBM",
     valid |-> <<<<".", "m", "k", "v">>, <<".", "w", "e", "b", "m">>>>],
    [type |-> "EXE/DLL",
     valid |-> <<<<".", "e", "x", "e">>, <<".", "d", "l", "l">>,
                 <<".", "s", "y", "s">>>>],
    [type |-> "DOC/XLS/PPT",
     valid |-> <<<<".", "d", "o", "c">>, <<".", "x", "l", "s">>,
                 <<".", "p", "p", "t">>>>]
>>

\* the extension mismatch test at the end of analyzeFile
cppExtensionMismatch(type, ext) ==
    /\ type # "Unknown"
    /\ type # "Text"
    /\ ext # <<>>
    /\ \E k \in 1..Len(validExtensions) :
           /\ validExtensions[k].type = type
           /\ ext \notin Range(validExtensions[k].valid)

\* toLowercase(filePath.extension().string()): a leading dot alone starts
\* no extension
cppExtension(name) ==
    LET lastDot == lastIndexOfDot(name, Len(name))
    IN  IF lastDot <= 0 \/ name = <<".", ".">> THEN <<>>
        ELSE toLowerCase(SubSeq(name, lastDot + 1, Len(name)))

\* analyzeFile(filePath), for a path that passes validatePath, with the
\* custom signatures loaded after the built-in ones
cppAnalyzeFile(f, custom) ==
    LET db == cppMagicDatabase \o custom
        ext == cppExtension(f.name)
        blank == [custom |-> custom, type |-> "Unknown",
                  category |-> "Unknown", isCorrupt |-> FALSE,
                  extensionMismatch |-> FALSE,
                  entropy |-> [num |-> 0, den |-> 1],
                  matched |-> noMatch, calls |-> {}]
    IN  IF ~f.readable THEN [blank EXCEPT !.type = "Unreadable"]
        ELSE IF Len(f.bytes) < 2
        THEN [blank EXCEPT !.type = "Empty/Corrupt", !.isCorrupt = TRUE]
        ELSE LET m == cppDetect(f.bytes, db)
                 fb == cppFallback(m.type, m.category, ext)
             IN  [blank EXCEPT
                     !.entropy = calculateEntropy(sliceTo(f.bytes, 65536)),
                     !.matched = m,
                     !.type = fb.type,
                     !.category = fb.category,
                     !.extensionMismatch = cppExtensionMismatch(fb.type, ext),
                     !.calls = {"calculateEntropy", "bytesToHex",
                                "matchMagic"}]

(* ------------------------ analysis of one file -------------------------- *)
MaxContentLen == 3

\* byte values of the exhaustively enumerated contents: 'P', 'K' and NUL
ByteAlphabet == {0, 75, 80}

\* every content of at most MaxContentLen bytes over ByteAlphabet
ShortContents == UNION {[1..n -> ByteAlphabet] : n \in 0..MaxContentLen}

\* n bytes holding the values 0 .. n-1 once each
Ramp(n) == [x \in 1..n |-> x - 1]

\* 256 bytes: the values 0..127 once each, the values 128..191 twice each
HalfDoubled ==
    [x \in 1..256 |-> IF x <= 128 THEN x - 1 ELSE 128 + ((x - 129) \div 2)]

PngHeader == <<137, 80, 78, 71>>

ZipHeader == <<80, 75, 3, 4>>

ElfHeader == <<127, 69, 76, 70>>

MachOHeader == <<254, 237, 250, 206>>

\* headers for the custom signatures below
OneGapHeader == <<170, 1, 2, 187>>

TwoGapHeader == <<170, 1, 2, 187, 3, 4, 204>>

WideGapHeader == <<170, 1, 2, 3, 4, 187>>

Contents ==
    ShortContents \cup
    {PngHeader, ZipHeader, ElfHeader, MachOHeader, OneGapHeader,
     TwoGapHeader, WideGapHeader, Ramp(16), Ramp(128), Ramp(256),
     HalfDoubled}

Names ==
    {<<"a">>,
     <<"a", ".", "p", "n", "g">>,
     <<"a", ".", "P", "N", "G">>,
     <<"a", ".", "t", "x", "t">>,
     <<"a", ".", "T", "X", "T">>,
     <<"a", ".", "s", "o">>}

\* a file: its name, its content, whether arrayBuffer() / the open
\* succeeds, and whether crypto.subtle.digest succeeds on it
Files ==
    [name : Names, bytes : Contents, readable : BOOLEAN, digestOk : BOOLEAN]

\* signatures.json: custom signatures with don't-care spans
customSig(hex) == [hex |-> hex, type |-> "CUSTOM", category |-> "Custom"]

OneGap == customSig(<<"A", "A", ".", ".", ".", ".", "B", "B">>)

TwoGaps ==
    customSig(<<"A", "A", ".", ".", ".", ".", "B", "B",
                ".", ".", ".", ".", "C", "C">>)

WideGap ==
    customSig(<<"A", "A", ".", ".", ".", ".", ".", ".", ".", ".", "B", "B">>)

CustomTables == {<<>>, <<OneGap>>, <<TwoGaps, OneGap>>, <<WideGap>>}

FileInit ==
    /\ concurrency = 4
    /\ queue = <<>>
    /\ activeCount = 0
    /\ results = <<>>
    /\ paused = FALSE
    /\ times = <<>>
    /\ totalTasks = 0
    /\ handler = "unset"
    /\ inflight = {}
    /\ dispatched = <<>>
    /\ settled = <<>>
    /\ errorLog = <<>>
    /\ progressLog = <<>>
    /\ completeLog = <<>>
    /\ noBatch
    /\ noHex
    /\ noOrganize
    /\ noFault
    /\ noPool
    /\ noParallel
    /\ file \in Files
    /\ record = [type |-> "none"]
    /\ pc = "ready"
    /\ calls = {}
    /\ matched = [type |-> "none"]
    /\ workerOut = [success |-> FALSE]
    /\ cppOut = [type |-> "none"]

\* the web application analyses the file: analyzeFile up to resolve(result)
analyze ==
    /\ pc = "ready"
    /\ LET out == analyzeFile(file)
       IN  /\ record' = out.result
           /\ calls' = out.calls
           /\ matched' = out.matched
           /\ pc' = IF out.hashing THEN "hashing" ELSE "resolved"
    /\ queueUntouched
    /\ UNCHANGED <<concurrency, tuneVars, hexVars, orgVars, faultVars,
                   poolVars, parVars, file, workerOut, cppOut>>

\* calculateSHA256(arrayBuffer) fulfils: the .then callback patches the hash
hashResolved ==
    /\ pc = "hashing"
    /\ file.digestOk
    /\ record' = [record EXCEPT !.hash = calculateSHA256(file.bytes)]
    /\ pc' = "hashed"
    /\ queueUntouched
    /\ UNCHANGED <<concurrency, tuneVars, hexVars, orgVars, faultVars,
                   poolVars, parVars, file, calls, matched, workerOut,
                   cppOut>>

\* calculateSHA256(arrayBuffer) rejects: no callback is registered for it
hashRejected ==
    /\ pc = "hashing"
    /\ ~file.digestOk
    /\ pc' = "hashFailed"
    /\ queueUntouched
    /\ UNCHANGED <<concurrency, tuneVars, hexVars, orgVars, faultVars,
                   poolVars, parVars, file, record, calls, matched,
                   workerOut, cppOut>>

\* the worker runs the task 'analyze' on the content of the file
workerTask ==
    /\ pc = "ready"
    /\ file.readable
    /\ workerOut' = workerAnalyze(file)
    /\ pc' = "worker"
    /\ queueUntouched
    /\ UNCHANGED <<concurrency, tuneVars, hexVars, orgVars, faultVars,
                   poolVars, parVars, file, record, calls, matched,
                   cppOut>>

\* the command line tool analyses the file
cppAnalyze(custom) ==
    /\ pc = "ready"
    /\ cppOut' = cppAnalyzeFile(file, custom)
    /\ pc' = "cpp"
    /\ queueUntouched
    /\ UNCHANGED <<concurrency, tuneVars, hexVars, orgVars, faultVars,
                   poolVars, parVars, file, record, calls, matched,
                   workerOut>>

FileNext ==
    \/ analyze
    \/ hashResolved
    \/ hashRejected
    \/ workerTask
    \/ \E custom \in CustomTables : cppAnalyze(custom)

FileSpec == FileInit /\ [][FileNext]_vars

(* ---------------------- claims on the file pipeline --------------------- *)
\* the web application's analyzeFile went past the size check
jsAnalysed == pc \in {"hashing", "hashed", "hashFailed"}

\* the command line tool went past the size check
cppAnalysed == pc = "cpp" /\ file.readable /\ Len(file.bytes) >= 2

\* the uppercase hex of the first n bytes of the file
headerHex(n) == bytesToHex(sliceTo(file.bytes, n))

\* C12: a content of fewer than 2 bytes (the empty one included) gives a
\* record with corrupt = true and entropy 0, and no signature lookup, no
\* entropy computation and no digest computation is performed for it, in
\* the web application and in the command line tool.
C12_ShortContentIsCorrupt ==
    /\ (pc \notin {"idle", "ready", "worker", "cpp"}
            /\ file.readable /\ Len(file.bytes) < 2)
          => /\ record.isCorrupt
             /\ record.entropy.num = 0
             /\ calls \cap {"matchMagic", "calculateEntropy",
                            "calculateSHA256"} = {}
             /\ record.hash.tag = "N/A"
             /\ pc = "resolved"
    /\ (pc = "cpp" /\ file.readable /\ Len(file.bytes) < 2)
          => /\ cppOut.isCorrupt
             /\ cppOut.entropy.num = 0
             /\ cppOut.calls \cap {"matchMagic", "calculateEntropy",
                                   "calculateSHA256"} = {}

C12_Witness ==
    /\ pc = "resolved"
    /\ file.readable
    /\ file.bytes = <<>>
    /\ record.isCorrupt
    /\ record.type = "Empty/Corrupt"

\* p is a prefix of hex, character by character
isLiteralPrefix(p, hex) ==
    /\ Len(p) <= Len(hex)
    /\ \A x \in 1..Len(p) : hex[x] = p[x]

\* the least index of db whose pattern is a literal prefix of hex, 0 if none
firstLiteralPrefix(hex, db) ==
    IF \E k \in 1..Len(db) : isLiteralPrefix(db[k].hex, hex)
    THEN CHOOSE k \in 1..Len(db) :
             /\ isLiteralPrefix(db[k].hex, hex)
             /\ \A j \in 1..(k - 1) : ~isLiteralPrefix(db[j].hex, hex)
    ELSE 0

\* the classification that first-match-wins prescribes for hex under db
firstMatchWins(hex, db, type, category) ==
    LET k == firstLiteralPrefix(hex, db)
    IN  /\ k = 0 => type = "Unknown" /\ category = "Unknown"
        /\ k # 0 => type = db[k].type /\ category = db[k].category
        /\ \A a \in 1..Len(db), b \in 1..Len(db) :
               (/\ a < b
                /\ isLiteralPrefix(db[b].hex, db[a].hex)
                /\ a = k) => type = db[a].type

\* C13: signature matching is first-match-wins in table order: the match
\* loop of the web application, detectType of the worker and the match loop
\* of the command line tool (literal signatures) return the classification
\* of the first signature whose pattern is a literal prefix of the header's
\* uppercase hex; of an earlier signature A and a later B whose pattern is a
\* prefix of A's, A wins; Unknown/Unknown when nothing matches.
C13_FirstMatchWins ==
    /\ jsAnalysed =>
           firstMatchWins(headerHex(64), magicDatabase,
                          matched.type, matched.category)
    /\ (pc = "worker" /\ workerOut.success) =>
           firstMatchWins(headerHex(16), MAGIC_SIGNATURES,
                          workerOut.type, workerOut.category)
    /\ (cppAnalysed /\ cppOut.custom = <<>>) =>
           firstMatchWins(headerHex(64), cppMagicDatabase,
                          cppOut.matched.type, cppOut.matched.category)

C13_Witness ==
    /\ cppAnalysed
    /\ cppOut.custom = <<>>
    /\ file.bytes = ZipHeader
    /\ cppOut.matched.type = "ZIP/DOCX/XLSX"
    /\ \E b \in 1..Len(cppMagicDatabase) :
           /\ b > cppOut.matched.sig
           /\ cppMagicDatabase[b].type = "ZIP"
           /\ isLiteralPrefix(cppMagicDatabase[b].hex, headerHex(64))

\* every literal position of the pattern equals the header there
wildcardMatches(pattern, hex) ==
    /\ Len(pattern) <= Len(hex)
    /\ \A x \in 1..Len(pattern) : pattern[x] # "." => hex[x] = pattern[x]

\* C14: a signature with fixed-width wildcard spans matches a header iff
\* every literal position of the pattern equals the header at that
\* position, and first-match-wins applies to such signatures too: the match
\* loop stops at the first signature that matches in this sense.
C14_WildcardSpansSkipped ==
    cppAnalysed =>
        LET db == cppMagicDatabase \o cppOut.custom
            hex == headerHex(64)
        IN  /\ \A k \in 1..Len(db) :
                   cppPatternMatches(hex, db[k].hex)
                       <=> wildcardMatches(db[k].hex, hex)
            /\ \A k \in 1..Len(db) :
                   (/\ wildcardMatches(db[k].hex, hex)
                    /\ \A j \in 1..(k - 1) : ~wildcardMatches(db[j].hex, hex))
                       => cppOut.matched.sig = k

\* the part of the name from its last dot on, lower-cased; empty without dot
lowerCasedExtension(name) ==
    IF \A x \in 1..Len(name) : name[x] # "." THEN <<>>
    ELSE LET d == CHOOSE x \in 1..Len(name) :
                      /\ name[x] = "."
                      /\ \A y \in (x + 1)..Len(name) : name[y] # "."
         IN  [y \in 1..(Len(name) - d + 1) |-> lowerChar(name[d + y - 1])]

\* the valid extensions the matched signature declares
declaredExtensions ==
    IF matched.sig = 0 THEN {}
    ELSE {magicDatabase[matched.sig].extensions[x] :
              x \in 1..Len(magicDatabase[matched.sig].extensions)}

\* scenario: 89 50 4E 47 is PNG/Image, mismatch false for .png, true for .txt
pngScenario ==
    file.bytes = PngHeader =>
        /\ record.type = "PNG"
        /\ record.category = "Image"
        /\ file.name = <<"a", ".", "p", "n", "g">>
               => ~record.extensionMismatch
        /\ file.name = <<"a", ".", "t", "x", "t">>
               => record.extensionMismatch

\* C15 as stated: the mismatch flag is true iff a signature matched, it
\* declares a non-empty valid-extension set and the lower-cased extension is
\* not a member of the set, a file without extension included.
C15_MismatchWithoutExtension ==
    jsAnalysed =>
        /\ record.extensionMismatch <=>
               /\ matched.sig # 0
               /\ declaredExtensions # {}
               /\ lowerCasedExtension(file.name) \notin declaredExtensions
        /\ pngScenario

\* C15, amended: the mismatch flag is true iff a signature matched, it
\* declares a non-empty valid-extension set, the file has an extension, and
\* the lower-cased extension is not a member of the set; 89 50 4E 47 is
\* PNG/Image with mismatch false for .png and true for .txt.
C15_MismatchNeedsExtension ==
    jsAnalysed =>
        /\ record.extensionMismatch <=>
               /\ matched.sig # 0
               /\ declaredExtensions # {}
               /\ lowerCasedExtension(file.name) # <<>>
               /\ lowerCasedExtension(file.name) \notin declaredExtensions
        /\ pngScenario

C15_Witness ==
    /\ jsAnalysed
    /\ file.bytes = PngHeader
    /\ file.name = <<"a">>
    /\ record.type = "PNG"
    /\ ~record.extensionMismatch

\* C16: a file classified ELF or MACH-O, type families without a valid
\* extension, is never flagged as extension mismatch, whatever its
\* extension.
C16_NoValidExtensionNeverFlagged ==
    (jsAnalysed /\ matched.type \in {"ELF", "MACH-O"})
        => ~record.extensionMismatch

\* C18: when the digest computation fails, the hash of the record is the
\* error sentinel, not the pending value, and the record is otherwise as
\* resolved.
C18_DigestFailurePatched ==
    pc = "hashFailed" =>
        /\ record.hash.tag = "Error"
        /\ [record EXCEPT !.hash = hashPending] = analyzeFile(file).result

\* comparisons of the fraction e with n / d
lessThan(e, n, d) == e.num * d < n * e.den

atLeast(e, n, d) == e.num * d >= n * e.den

moreThan(e, n, d) == e.num * d > n * e.den

atMost(e, n, d) == e.num * d <= n * e.den

\* the bounds of C19 on the entropy e of the bytes b
entropyBounds(e, b) ==
    /\ atLeast(e, 0, 1)
    /\ atMost(e, 8, 1)
    /\ b = <<>> => e.num = 0
    /\ b # <<>> => (e.num = 0 <=> Cardinality({b[x] : x \in 1..Len(b)}) = 1)
    /\ b = [x \in 1..256 |-> x - 1] => moreThan(e, 79, 10) /\ atMost(e, 8, 1)

\* C19: the entropy of every byte sequence is in [0, 8]; it is 0 for the
\* empty sequence; for a non-empty sequence it is 0 iff there is exactly one
\* distinct byte value; the 256 bytes 0..255 have an entropy in (7.9, 8].
C19_EntropyRange ==
    /\ (pc = "worker" /\ workerOut.success)
           => entropyBounds(workerOut.entropy, file.bytes)
    /\ jsAnalysed => entropyBounds(record.entropy, file.bytes)
    /\ cppAnalysed => entropyBounds(cppOut.entropy, file.bytes)

C19_Witness ==
    /\ pc = "worker"
    /\ workerOut.success
    /\ file.bytes = Ramp(256)
    /\ workerOut.entropy.num = 8 * workerOut.entropy.den

\* C20: the label is Low below 4, Medium from 4 to below 7, High from 7 on;
\* the encrypted/compressed flag is set iff the entropy is at least 7.5;
\* so the flag implies High, and [7, 7.5) is High with the flag unset.
C20_EntropyBands ==
    jsAnalysed =>
        LET e == record.entropy
        IN  /\ record.entropyLevel = "Low" <=> lessThan(e, 4, 1)
            /\ record.entropyLevel = "Medium"
                   <=> atLeast(e, 4, 1) /\ lessThan(e, 7, 1)
            /\ record.entropyLevel = "High" <=> atLeast(e, 7, 1)
            /\ record.isEncrypted <=> atLeast(e, 15, 2)
            /\ record.isEncrypted => record.entropyLevel = "High"
            /\ (atLeast(e, 7, 1) /\ lessThan(e, 15, 2))
                   => record.entropyLevel = "High" /\ ~record.isEncrypted

C20_Witness ==
    /\ jsAnalysed
    /\ file.bytes = Ramp(128)
    /\ record.entropyLevel = "High"
    /\ ~record.isEncrypted

\* C30: the record of a readable file of at least 2 bytes is delivered
\* without waiting for the digest: at delivery its hash is the pending
\* sentinel; after delivery only the hash ever changes, at most once, from
\* pending to the digest of the content.
C30_OnlyHashChangesAfterDelivery ==
    [][/\ (pc = "ready" /\ pc' \in {"hashing", "resolved"}
              /\ file.readable /\ Len(file.bytes) >= 2)
           => /\ pc' = "hashing"
              /\ record'.hash.tag = "Calculating..."
       /\ jsAnalysed
           => \/ record' = record
              \/ /\ record.hash.tag = "Calculating..."
                 /\ record'.hash.tag = "sha256"
                 /\ record'.hash.of = file.bytes
                 /\ [record' EXCEPT !.hash = record.hash] = record]_vars

C30_Witness ==
    /\ pc = "hashed"
    /\ record.type = "PNG"
    /\ record.hash.tag = "sha256"
    /\ record.hash.of = PngHeader

\* the entries of the extension table for the extension ext
tableEntries(ext) ==
    {k \in 1..Len(extensionMap) : extensionMap[k].ext = ext}

\* C31: when no signature matches, the type is the one the extension table
\* gives for the lower-cased extension of the file, and stays Unknown when
\* there is no extension or the table has no entry for it; a record
\* classified by this fallback is never flagged as extension mismatch; when
\* a signature matched, the record carries the type of the signature.
C31_ExtensionFallback ==
    jsAnalysed =>
        LET ext == lowerCasedExtension(file.name)
        IN  /\ (matched.sig = 0 /\ ext # <<>> /\ tableEntries(ext) # {}) =>
                   /\ \E k \in tableEntries(ext) :
                          /\ record.type = extensionMap[k].type
                          /\ record.category = extensionMap[k].category
                   /\ ~record.extensionMismatch
            /\ (matched.sig = 0 /\ (ext = <<>> \/ tableEntries(ext) = {})) =>
                   /\ record.type = "Unknown"
                   /\ record.category = "Unknown"
                   /\ ~record.extensionMismatch
            /\ matched.sig # 0 =>
                   /\ record.type = magicDatabase[matched.sig].type
                   /\ record.category = magicDatabase[matched.sig].category

C31_Witness ==
    /\ jsAnalysed
    /\ matched.sig = 0
    /\ file.name = <<"a", ".", "T", "X", "T">>
    /\ record.type = "Text"
    /\ ~record.extensionMismatch

(* ------------------------- analysis of a batch -------------------------- *)
MaxFiles == 3

\* the files of a batch: a PNG header or an empty content, readable or not
BatchFiles ==
    {f \in Files : /\ f.name = <<"a", ".", "p", "n", "g">>
                   /\ f.bytes \in {PngHeader, <<>>}
                   /\ f.digestOk}

\* a non-empty fileArray handed to analyzeFiles
AnalysisInit ==
    /\ concurrency = 4
    /\ queue = <<>>
    /\ activeCount = 0
    /\ results = <<>>
    /\ paused = FALSE
    /\ times = <<>>
    /\ totalTasks = 0
    /\ handler = "unset"
    /\ inflight = {}
    /\ dispatched = <<>>
    /\ settled = <<>>
    /\ errorLog = <<>>
    /\ progressLog = <<>>
    /\ completeLog = <<>>
    /\ batch \in UNION {[1..n -> BatchFiles] : n \in 1..MaxFiles}
    /\ sizes = [x \in 1..Len(batch) |-> Len(batch[x].bytes)]
    /\ tuned = 0
    /\ noFile
    /\ noHex
    /\ noOrganize
    /\ noFault
    /\ noPool
    /\ noParallel

\* analyzeFiles(files): the tuning, new DynamicTaskQueue(concurrency),
\* queue.add(fileArray) and queue.start(handler); the batch is not empty, so
\* process() dispatches at least one handler and does not find the queue idle
analyzeFiles ==
    /\ tuned = 0
    /\ batch # <<>>
    /\ LET k == tuneConcurrency(avgSize(sizes))
           f == fillSlots(0, k, NewItems(0, Len(batch)), {}, <<>>)
       IN  /\ tuned' = k
           /\ concurrency' = k
           /\ totalTasks' = Len(batch)
           /\ handler' = "set"
           /\ activeCount' = f.activeCount
           /\ queue' = f.queue
           /\ inflight' = f.inflight
           /\ dispatched' = f.dispatched
    /\ UNCHANGED <<results, paused, times, settled, errorLog, progressLog,
                   completeLog, sizes, batch, fileVars, hexVars,
                   orgVars, faultVars, poolVars,
                   parVars>>

\* the handler of file i, async (file) => await analyzeFile(file), settles
\* the way analyzeFile(file) does
handlerSettles(i, d) ==
    /\ i \in inflight
    /\ IF analyzeFile(batch[i]).settle = "resolve"
       THEN settleOk(i, d)
       ELSE settleFail(i)

AnalysisNext ==
    \/ analyzeFiles
    \/ \E i \in 1..MaxFiles, d \in 1..MaxDuration : handlerSettles(i, d)

AnalysisSpec == AnalysisInit /\ [][AnalysisNext]_vars

\* C17: a read failure never rejects the pipeline and never aborts the
\* batch: no handler rejects, every settled file has a record, the record of
\* an unreadable file has type Unreadable, and once the N handlers of a
\* batch have settled the batch has completed, once, with N records.
C17_UnreadableNeverAborts ==
    /\ errorLog = <<>>
    /\ Len(results) = Len(settled)
    /\ \A x \in 1..Len(results) :
           LET f == batch[results[x]]
           IN  ~f.readable => analyzeFile(f).result.type = "Unreadable"
    /\ completeLog # <<>> =>
           /\ Len(completeLog) = 1
           /\ Len(LastOf(completeLog).results) = Len(batch)
    /\ (tuned # 0 /\ Len(settled) = Len(batch)) => completeLog # <<>>

C17_Witness ==
    /\ completeLog # <<>>
    /\ Len(batch) = MaxFiles
    /\ Len(results) = MaxFiles
    /\ \E x \in 1..Len(batch) : ~batch[x].readable
    /\ \E x \in 1..Len(batch) : batch[x].readable

(* ------------------------------ bytesToHex ------------------------------ *)
UpperHexDigits ==
    <<"0", "1", "2", "3", "4", "5", "6", "7", "8", "9",
      "A", "B", "C", "D", "E", "F">>

\* ss << hex << uppercase << static_cast<int>(byte): no leading zero
cppHexOfInt(b) ==
    IF b < 16 THEN <<UpperHexDigits[b + 1]>>
    ELSE <<UpperHexDigits[(b \div 16) + 1], UpperHexDigits[(b % 16) + 1]>>

\* setw(2) << setfill('0')
cppSetw2(s) == IF Len(s) < 2 THEN <<"0">> \o s ELSE s

\* analyzer.cpp bytesToHex(bytes)
RECURSIVE cppBytesToHex(_)
cppBytesToHex(bytes) ==
    IF bytes = <<>> THEN <<>>
    ELSE cppSetw2(cppHexOfInt(Head(bytes))) \o cppBytesToHex(Tail(bytes))

\* the byte sequences handed to bytesToHex: the headers (at most 64 bytes)
\* of the file contents and the inputs of the unit tests
HexInputs ==
    {sliceTo(c, 64) : c \in Contents}
        \cup {<<137>>, <<255, 255>>, <<0, 0, 0>>, <<15, 16>>,
                   <<37, 80, 68, 70, 45>>, <<77, 90>>,
                   <<137, 80, 78, 71, 13, 10, 26, 10>>}

HexInit ==
    /\ concurrency = 4
    /\ queue = <<>>
    /\ activeCount = 0
    /\ results = <<>>
    /\ paused = FALSE
    /\ times = <<>>
    /\ totalTasks = 0
    /\ handler = "unset"
    /\ inflight = {}
    /\ dispatched = <<>>
    /\ settled = <<>>
    /\ errorLog = <<>>
    /\ progressLog = <<>>
    /\ completeLog = <<>>
    /\ noBatch
    /\ noHex
    /\ noOrganize
    /\ noFault
    /\ noPool
    /\ noParallel
    /\ file \in {f \in [name : {<<"a">>}, bytes : HexInputs,
                        readable : {TRUE}, digestOk : {TRUE}] : TRUE}
    /\ record = [type |-> "none"]
    /\ pc = "ready"
    /\ calls = {}
    /\ matched = [type |-> "none"]
    /\ workerOut = [success |-> FALSE]
    /\ cppOut = [type |-> "none"]

\* what a call of bytesToHex leaves unchanged
hexFrame ==
    /\ queueUntouched
    /\ UNCHANGED <<concurrency, tuneVars, orgVars, faultVars, poolVars,
                   parVars, file, record, calls, matched, workerOut, cppOut>>

\* bytesToHex(bytes) of the web application and of the worker
jsBytesToHex ==
    /\ pc = "ready"
    /\ hexOut' = [impl |-> "js", hex |-> bytesToHex(file.bytes)]
    /\ pc' = "hex"
    /\ hexFrame

\* bytesToHex(bytes) of the command line tool
cppBytesToHexCall ==
    /\ pc = "ready"
    /\ hexOut' = [impl |-> "cpp", hex |-> cppBytesToHex(file.bytes)]
    /\ pc' = "hex"
    /\ hexFrame

HexNext ==
    \/ jsBytesToHex
    \/ cppBytesToHexCall

HexSpec == HexInit /\ [][HexNext]_vars

\* the value of an uppercase hexadecimal digit, -1 for any other character
digitValue(c) ==
    IF \E v \in 0..15 : UpperHexDigits[v + 1] = c
    THEN CHOOSE v \in 0..15 : UpperHexDigits[v + 1] = c
    ELSE -1

\* the signature whose hex is p stands for the leading bytes of b
leadingBytes(p, b) ==
    /\ Len(p) <= 2 * Len(b)
    /\ \A x \in 1..(Len(p) \div 2) :
           b[x] = 16 * digitValue(p[2 * x - 1]) + digitValue(p[2 * x])

\* C26: bytesToHex maps n bytes to exactly 2n uppercase hexadecimal digits,
\* two zero-padded digits per byte in input order, the empty input to the
\* empty string; so the hex of a signature is a prefix of the header hex
\* iff the signature's bytes are the leading bytes of the file.
C26_BytesToHex ==
    pc = "hex" =>
        LET h == hexOut.hex
            b == file.bytes
            db == IF hexOut.impl = "cpp" THEN cppMagicDatabase
                  ELSE magicDatabase
        IN  /\ Len(h) = 2 * Len(b)
            /\ \A x \in 1..Len(b) :
                   /\ digitValue(h[2 * x - 1]) = b[x] \div 16
                   /\ digitValue(h[2 * x]) = b[x] % 16
            /\ b = <<>> => h = <<>>
            /\ \A k \in 1..Len(db) :
                   startsWith(h, db[k].hex) <=> leadingBytes(db[k].hex, b)

C26_Witness ==
    /\ pc = "hex"
    /\ hexOut.impl = "cpp"
    /\ file.bytes = ZipHeader
    /\ hexOut.hex = <<"5", "0", "4", "B", "0", "3", "0", "4">>

(* ------------------------ organizeFiles: naming ------------------------- *)
\* the spelling of the type names that reach the organizer in this model
typeSpelling(type) ==
    CASE
         type = "PNG" -> <<"P", "N", "G">>
      [] type = "Text" -> <<"T", "e", "x", "t">>
      [] type = "Unknown" -> <<"U", "n", "k", "n", "o", "w", "n">>
      [] type = "ZIP/DOCX/XLSX" -> <<"Z", "I", "P", "/", "D", "O", "C", "X", "/", "X", "L", "S", "X">>
      [] type = "GZIP" -> <<"G", "Z", "I", "P">>
      [] type = "DOC/XLS/PPT" -> <<"D", "O", "C", "/", "X", "L", "S", "/", "P", "P", "T">>
      [] type = "Empty/Corrupt" -> <<"E", "m", "p", "t", "y", "/", "C", "o", "r", "r", "u", "p", "t">>
      [] type = "Unreadable" -> <<"U", "n", "r", "e", "a", "d", "a", "b", "l", "e">>

\* s.includes(t)
includes(s, t) ==
    \E x \in 0..(Len(s) - Len(t)) : SubSeq(s, x + 1, x + Len(t)) = t

\* s.replace(/[...]/g, '_') for the character class bad
replaceAll(s, bad) == [x \in 1..Len(s) |-> IF s[x] \in bad THEN "_" ELSE s[x]]

\* the character class of the folder name sanitization
FolderForbidden == {"/", "\\", ":", "*", "?", "\"", "<", ">", "|"}

\* the character class of the file name sanitization; of the control
\* characters \x00-\x1F, tab and line feed are modelled
NameForbidden == {"<", ">", ":", "\"", "/", "\\", "|", "?", "*", "\t", "\n"}

\* map of the ZIP based formats: extension -> folder
zipFolders == <<
    [ext |-> <<".", "d", "o", "c", "x">>, folder |-> <<"D", "O", "C", "X">>],
    [ext |-> <<".", "x", "l", "s", "x">>, folder |-> <<"X", "L", "S", "X">>],
    [ext |-> <<".", "p", "p", "t", "x">>, folder |-> <<"P", "P", "T", "X">>],
    [ext |-> <<".", "d", "o", "c">>, folder |-> <<"D", "O", "C">>],
    [ext |-> <<".", "x", "l", "s">>, folder |-> <<"X", "L", "S">>],
    [ext |-> <<".", "p", "p", "t">>, folder |-> <<"P", "P", "T">>],
    [ext |-> <<".", "j", "a", "r">>, folder |-> <<"J", "A", "R">>],
    [ext |-> <<".", "a", "p", "k">>, folder |-> <<"A", "P", "K">>],
    [ext |-> <<".", "z", "i", "p">>, folder |-> <<"Z", "I", "P">>]
>>

\* the folder name of a record: its type, the ZIP based formats by their
\* extension, sanitized
folderNameOf(result) ==
    LET t == typeSpelling(result.type)
        ext == toLowerCase(result.actualExtension)
        byExt ==
            IF \E k \in 1..Len(zipFolders) : zipFolders[k].ext = ext
            THEN zipFolders[CHOOSE k \in 1..Len(zipFolders) :
                                zipFolders[k].ext = ext].folder
            ELSE <<"Z", "I", "P", "_", "A", "r", "c", "h", "i", "v", "e">>
        folderName ==
            IF \/ includes(t, <<"Z", "I", "P">>)
               \/ includes(t, <<"D", "O", "C", "X">>)
               \/ includes(t, <<"X", "L", "S", "X">>)
            THEN byExt
            ELSE t
    IN  replaceAll(folderName, FolderForbidden)

\* s.replace(/^\.+/, '_'): a leading run of dots becomes one underscore
RECURSIVE dropLeadingDots(_)
dropLeadingDots(s) ==
    IF s # <<>> /\ Head(s) = "." THEN dropLeadingDots(Tail(s)) ELSE s

replaceLeadingDots(s) ==
    IF s # <<>> /\ Head(s) = "." THEN <<"_">> \o dropLeadingDots(s) ELSE s

\* s.trim() === '' for the names of this model: nothing but spaces
isBlank(s) == \A x \in 1..Len(s) : s[x] = " "

DecimalDigits == <<"0", "1", "2", "3", "4", "5", "6", "7", "8", "9">>

\* `${n}` for an integer n >= 0
RECURSIVE toDecimal(_)
toDecimal(n) ==
    IF n < 10 THEN <<DecimalDigits[n + 1]>>
    ELSE toDecimal(n \div 10) \o <<DecimalDigits[(n % 10) + 1]>>

MaxNameLength == 200

\* the sanitization of a file name; now is the reading of Date.now()
safeNameOf(name, now) ==
    LET cut == sliceTo(replaceLeadingDots(replaceAll(name, NameForbidden)),
                       MaxNameLength)
    IN  IF cut = <<>> \/ isBlank(cut)
        THEN <<"u", "n", "n", "a", "m", "e", "d", "_">> \o toDecimal(now)
        ELSE cut

\* variant: the counter is appended after the extension
suffixed_AfterExtension(safeName, counter) ==
    safeName \o <<"_">> \o toDecimal(counter)

\* the candidate `${base}_${counter}${ext}` of the duplicate loop
suffixed(safeName, counter) ==
    LET dotIdx == lastIndexOfDot(safeName, Len(safeName))
    IN  IF dotIdx > 0
        THEN SubSeq(safeName, 1, dotIdx) \o <<"_">> \o toDecimal(counter)
                 \o SubSeq(safeName, dotIdx + 1, Len(safeName))
        ELSE safeName \o <<"_">> \o toDecimal(counter)

\* variant: the names in use are kept and compared as spelled
inUse_CaseSensitive(folderSet, finalName) == finalName \in folderSet

\* folderSet.has(finalName.toLowerCase())
inUse(folderSet, finalName) == toLowerCase(finalName) \in folderSet

\* the while loop handling duplicates, entered with finalName and counter
RECURSIVE uniqueName(_, _, _, _)
uniqueName(safeName, folderSet, finalName, counter) ==
    IF inUse(folderSet, finalName)
    THEN uniqueName(safeName, folderSet, suffixed(safeName, counter),
                    counter + 1)
    ELSE finalName

\* usedNames.get(folderName), the empty set when the folder is new
folderSetOf(usedNames, folderName) ==
    IF folderName \in DOMAIN usedNames THEN usedNames[folderName] ELSE {}

\* variant: no name is resolved in the plan, each job keeps its sanitized
\* name and the writer is left to find a free one
planJob_Unresolved(plan, job, now) ==
    IF job.blob = 0 THEN plan
    ELSE [usedNames |-> plan.usedNames,
          readyJobs |->
              Append(plan.readyJobs,
                     [folderName |-> job.folderName,
                      finalName |-> safeNameOf(job.name, now),
                      fileBlob |-> job.blob,
                      src |-> job.src])]

\* one iteration of writeJobs.forEach: the job is skipped when no file is
\* stored under its name (blob = 0), else it gets its final name
planJob(plan, job, now) ==
    IF job.blob = 0 THEN plan
    ELSE LET folderSet == folderSetOf(plan.usedNames, job.folderName)
             safeName == safeNameOf(job.name, now)
             finalName == uniqueName(safeName, folderSet, safeName, 1)
             others == DOMAIN plan.usedNames \ {job.folderName}
         IN  [usedNames |->
                  [g \in DOMAIN plan.usedNames \cup {job.folderName} |->
                      IF g = job.folderName
                      THEN folderSet \cup {toLowerCase(finalName)}
                      ELSE plan.usedNames[g]],
              readyJobs |->
                  Append(plan.readyJobs,
                         [folderName |-> job.folderName,
                          finalName |-> finalName,
                          fileBlob |-> job.blob,
                          src |-> job.src])]

\* writeJobs.forEach over the jobs from index k on; clock[k] is the
\* reading of Date.now() in iteration k
RECURSIVE planFrom(_, _, _, _)
planFrom(plan, writeJobs, clock, k) ==
    IF k > Len(writeJobs) THEN plan
    ELSE planFrom(planJob(plan, writeJobs[k], clock[k]), writeJobs, clock,
                  k + 1)

\* the write jobs of the records, in the order of analysisResults; blob is
\* the upload stored in currentFileData under the name of the record (0 if
\* none) and src the upload the record was produced from
writeJobsOf(recs, stored) ==
    [k \in 1..Len(recs) |->
        [folderName |-> folderNameOf(recs[k].result),
         name |-> recs[k].result.name,
         blob |-> IF recs[k].result.name \in DOMAIN stored
                  THEN stored[recs[k].result.name] ELSE 0,
         src |-> recs[k].src]]

\* steps 1 and 2 of organizeFiles: the naming plan
namingPlan(recs, stored, clock) ==
    planFrom([usedNames |-> <<>>, readyJobs |-> <<>>],
             writeJobsOf(recs, stored), clock, 1).readyJobs

(* ------------------------ organizeFiles: the run ------------------------ *)
\* new DynamicTaskQueue(64)
WriteConcurrency == 64

\* the readings of Date.now() during the naming loop
Clock == {1, 2}

\* the readings of the clock over n iterations: time does not run backwards
clockReadings(n) ==
    {c \in [1..n -> Clock] : \A x \in 1..n, y \in 1..n : x < y => c[x] <= c[y]}

\* a dropped file whose digest can be computed
upload(name, bytes, readable) ==
    [name |-> name, bytes |-> bytes, readable |-> readable,
     digestOk |-> TRUE]

\* content detected as text under the extension .txt
TextContent == <<75, 80, 75, 80>>

NamingNames ==
    {<<"a", ".", "t", "x", "t">>,
     <<"A", ".", "t", "x", "t">>,
     <<"a", "_", "1", ".", "t", "x", "t">>,
     <<"a">>,
     <<" ">>,
     <<"u", "n", "n", "a", "m", "e", "d", "_", "1">>,
     <<".", ".", "a", "?">>}

NamingFiles ==
    {upload(n, b, TRUE) : n \in NamingNames, b \in {PngHeader, TextContent}}

OrganizeNames == {<<"x", ".", "t", "x", "t">>}

OrganizeUploads ==
    {upload(n, b, r) : n \in OrganizeNames, b \in {PngHeader, TextContent},
                       r \in BOOLEAN}

\* the record analyzeFile resolves with, for each file of the two sets
analysisOf ==
    [f \in NamingFiles \cup OrganizeUploads |-> analyzeFile(f).result]

\* analysisResults after analyzeFiles(ups): one record per upload; src is
\* the upload the record was produced from
recordsOf(ups) ==
    [k \in 1..Len(ups) |-> [src |-> k, result |-> analysisOf[ups[k]]]]

\* currentFileData after analyzeFiles(ups): currentFileData.set(file.name,
\* ...) ran for every upload whose read succeeded, in the order in which the
\* reads returned, so each name maps to one of the uploads read under it
storedChoices(ups) ==
    LET read == {k \in 1..Len(ups) : ups[k].readable}
        names == {ups[k].name : k \in read}
    IN  {s \in [names -> read] : \A n \in names : ups[s[n]].name = n}

\* the state in which organizeFiles is invoked on the uploads ups
organizeEntry(ups) ==
    /\ concurrency = WriteConcurrency
    /\ queue = <<>>
    /\ activeCount = 0
    /\ results = <<>>
    /\ paused = FALSE
    /\ times = <<>>
    /\ totalTasks = 0
    /\ handler = "unset"
    /\ inflight = {}
    /\ dispatched = <<>>
    /\ settled = <<>>
    /\ errorLog = <<>>
    /\ progressLog = <<>>
    /\ completeLog = <<>>
    /\ noBatch
    /\ noFile
    /\ noHex
    /\ noFault
    /\ noPool
    /\ noParallel
    /\ uploads = ups
    /\ currentFileData \in storedChoices(ups)
    /\ analysisResults = recordsOf(ups)
    /\ readyJobs = <<>>
    /\ dirHandles = {}
    /\ mkdirs = <<>>
    /\ jobPc = <<>>
    /\ written = {}

\* the handler of a job up to its first await: a cached directory handle
\* leads to getFileHandle, a missing one to getDirectoryHandle(create)
handlerEntry(job, dh) == IF job.folderName \in dh THEN "open" ELSE "mkdir"

\* the positions after the handlers of the jobs in newly were entered
enterHandlers(pcs, jobs, newly, dh) ==
    [j \in 1..Len(jobs) |->
        IF j \in newly THEN handlerEntry(jobs[j], dh) ELSE pcs[j]]

\* the getDirectoryHandle(create) calls issued by the handlers entered, ds
\* being the dispatch order and from the number of jobs dispatched before
mkdirCalls(jobs, ds, from, dh) ==
    LET entered == SubSeq(ds, from + 1, Len(ds))
        missing == SelectSeq(entered,
                             LAMBDA j : handlerEntry(jobs[j], dh) = "mkdir")
    IN  [x \in 1..Len(missing) |-> jobs[missing[x]].folderName]

\* organizeFiles() from the naming plan on: steps 1 and 2, new
\* DynamicTaskQueue(64), queue.add(readyJobs) and queue.start(handler),
\* whose process() enters the handlers of the first 64 jobs
organizeFiles ==
    /\ handler = "unset"
    /\ analysisResults # <<>>
    /\ \E clock \in clockReadings(Len(analysisResults)) :
       \E jobs \in {namingPlan(analysisResults, currentFileData, clock)} :
         LET f == fillSlots(0, WriteConcurrency, NewItems(0, Len(jobs)), {},
                            <<>>)
         IN  /\ readyJobs' = jobs
             /\ concurrency' = WriteConcurrency
             /\ totalTasks' = Len(jobs)
             /\ handler' = "set"
             /\ activeCount' = f.activeCount
             /\ queue' = f.queue
             /\ inflight' = f.inflight
             /\ dispatched' = f.dispatched
             /\ completeLog' =
                   IF isIdle(f.activeCount, f.queue)
                   THEN <<[results |-> <<>>, activeCount |-> 0,
                           queueLen |-> 0, inflight |-> {},
                           total |-> Len(jobs), settled |-> <<>>,
                           rejected |-> <<>>]>>
                   ELSE completeLog
             /\ jobPc' = enterHandlers([j \in 1..Len(jobs) |-> "queued"],
                                       jobs, f.inflight, dirHandles)
             /\ mkdirs' = mkdirCalls(jobs, f.dispatched, 0, dirHandles)
    /\ UNCHANGED <<results, paused, times, settled, errorLog, progressLog,
                   tuneVars, fileVars, hexVars, faultVars, poolVars,
                   parVars, uploads, currentFileData,
                   analysisResults, dirHandles, written>>

\* typeFolder = await getDirectoryHandle(...) returned in the handler of job
\* j: dirHandles.set(job.folderName, typeFolder), then getFileHandle
mkdirDone(j) ==
    /\ j \in DOMAIN jobPc
    /\ jobPc[j] = "mkdir"
    /\ dirHandles' = dirHandles \cup {readyJobs[j].folderName}
    /\ jobPc' = [jobPc EXCEPT ![j] = "open"]
    /\ UNCHANGED <<queueVars, tuneVars, fileVars, hexVars, faultVars, poolVars,
                   parVars, uploads,
                   currentFileData, analysisResults, readyJobs, mkdirs,
                   written>>

\* await typeFolder.getFileHandle(job.finalName, { create: true }) returned:
\* createWritable, write(job.fileBlob) and close follow
fileOpened(j) ==
    /\ j \in DOMAIN jobPc
    /\ jobPc[j] = "open"
    /\ jobPc' = [jobPc EXCEPT ![j] = "write"]
    /\ UNCHANGED <<queueVars, tuneVars, fileVars, hexVars, faultVars, poolVars,
                   parVars, uploads,
                   currentFileData, analysisResults, readyJobs, dirHandles,
                   mkdirs, written>>

\* the file a job leaves in its folder: the content of its blob
writtenFile(j) ==
    [job |-> j,
     folderName |-> readyJobs[j].folderName,
     finalName |-> readyJobs[j].finalName,
     content |-> uploads[readyJobs[j].fileBlob].bytes]

\* await writable.close() returned in the handler of job j, d ms after its
\* dispatch: the handler returns and the queue runs its .then callback
writeDone(j, d) ==
    /\ j \in DOMAIN jobPc
    /\ jobPc[j] = "write"
    /\ written' = written \cup {writtenFile(j)}
    /\ LET res == pushResult(results, j)
           ts == pushTime(times, d)
           ac == activeCount - 1
           st == Append(settled, j)
       IN  /\ results' = res
           /\ times' = ts
           /\ settled' = st
           /\ progressLog' =
                 Append(progressLog, progressEvent(res, ac, queue, ts))
           /\ process(ac, res, inflight \ {j}, st, errorLog)
    /\ jobPc' = enterHandlers([jobPc EXCEPT ![j] = "done"], readyJobs,
                              inflight' \ inflight, dirHandles)
    /\ mkdirs' = mkdirs \o mkdirCalls(readyJobs, dispatched',
                                      Len(dispatched), dirHandles)
    /\ UNCHANGED <<concurrency, paused, totalTasks, handler, errorLog,
                   tuneVars, fileVars, hexVars, faultVars, poolVars,
                   parVars, uploads, currentFileData,
                   analysisResults, readyJobs, dirHandles>>

\* one of the awaits of the handler of job j rejected: the handler rejects
\* and the queue runs its .catch callback
writeFails(j) ==
    /\ j \in DOMAIN jobPc
    /\ jobPc[j] \in {"mkdir", "open", "write"}
    /\ LET st == Append(settled, j)
           el == Append(errorLog, j)
       IN  /\ errorLog' = el
           /\ settled' = st
           /\ process(activeCount - 1, results, inflight \ {j}, st, el)
    /\ jobPc' = enterHandlers([jobPc EXCEPT ![j] = "failed"], readyJobs,
                              inflight' \ inflight, dirHandles)
    /\ mkdirs' = mkdirs \o mkdirCalls(readyJobs, dispatched',
                                      Len(dispatched), dirHandles)
    /\ UNCHANGED <<concurrency, results, paused, times, totalTasks, handler,
                   progressLog, tuneVars, fileVars, hexVars, faultVars, poolVars,
                   parVars, uploads,
                   currentFileData, analysisResults, readyJobs, dirHandles,
                   written>>

(* The naming plan on lists of names that collide *)
MaxJobs == 3

NamingInit ==
    \E ups \in UNION {[1..n -> NamingFiles] : n \in 1..MaxJobs} :
        organizeEntry(ups)

NamingNext == organizeFiles

NamingSpec == NamingInit /\ [][NamingNext]_vars

\* the jobs of the plan that go to folder g, in plan order
jobsOfFolder(g) == SelectSeq(readyJobs, LAMBDA job : job.folderName = g)

\* the folders of the plan
planFolders == {readyJobs[j].folderName : j \in DOMAIN readyJobs}

\* C21: in the naming plan, the final names within one destination folder
\* are pairwise distinct when compared without regard to case, whatever the
\* list of files (names differing only in case, names that look like a
\* numbered duplicate).
C21_FinalNamesDistinct ==
    \A i \in DOMAIN readyJobs, j \in DOMAIN readyJobs :
        (i # j /\ readyJobs[i].folderName = readyJobs[j].folderName) =>
            toLowerCase(readyJobs[i].finalName)
                # toLowerCase(readyJobs[j].finalName)

C21_Witness ==
    /\ Len(readyJobs) = 3
    /\ Cardinality(planFolders) = 1
    /\ uploads[1].name = <<"a", ".", "t", "x", "t">>
    /\ uploads[2].name = <<"A", ".", "t", "x", "t">>
    /\ uploads[3].name = <<"a", "_", "1", ".", "t", "x", "t">>
    /\ readyJobs[3].finalName # uploads[3].name

\* the name of the file job was planned for has a sanitization that does
\* not depend on the clock
sanitizedOf(job) == safeNameOf(uploads[job.src].name, 1)

clockFree(job) ==
    \A now \in Clock : safeNameOf(uploads[job.src].name, now) = sanitizedOf(job)

\* 'base_i.ext': the number goes before the last dot, at the end of a name
\* without one
numbered(s, i) ==
    LET dots == {p \in 2..Len(s) : s[p] = "."}
        digit == <<DecimalDigits[i + 1]>>
    IN  IF dots = {} THEN s \o <<"_">> \o digit
        ELSE LET p == CHOOSE q \in dots : \A r \in dots : r <= q
             IN  SubSeq(s, 1, p - 1) \o <<"_">> \o digit
                     \o SubSeq(s, p, Len(s))

\* C22: when the files of one folder all sanitize to the same name, the
\* first in input order keeps it and the i-th after it gets the number i
\* before the extension, or at the end of a name without extension.
C22_DuplicatesNumberedInOrder ==
    \A g \in planFolders :
        LET jobs == jobsOfFolder(g)
        IN  (\A i \in DOMAIN jobs :
                 clockFree(jobs[i]) /\ sanitizedOf(jobs[i]) = sanitizedOf(jobs[1]))
            => \A i \in DOMAIN jobs :
                   jobs[i].finalName =
                       IF i = 1 THEN sanitizedOf(jobs[1])
                       ELSE numbered(sanitizedOf(jobs[1]), i - 1)

C22_Witness ==
    /\ Len(readyJobs) = 3
    /\ Cardinality(planFolders) = 1
    /\ \A j \in 1..3 : uploads[j].name = <<"a", ".", "t", "x", "t">>
    /\ readyJobs[1].finalName = <<"a", ".", "t", "x", "t">>
    /\ readyJobs[2].finalName = <<"a", "_", "1", ".", "t", "x", "t">>
    /\ readyJobs[3].finalName = <<"a", "_", "2", ".", "t", "x", "t">>

(* The write phase on files of one name *)
MaxUploads == 2

OrganizeInit ==
    \E ups \in UNION {[1..n -> OrganizeUploads] : n \in 1..MaxUploads} :
        organizeEntry(ups)

OrganizeNext ==
    \/ organizeFiles
    \/ \E j \in 1..MaxUploads : mkdirDone(j)
    \/ \E j \in 1..MaxUploads : fileOpened(j)
    \/ \E j \in 1..MaxUploads, d \in 1..MaxDuration : writeDone(j, d)
    \/ \E j \in 1..MaxUploads : writeFails(j)

OrganizeSpec == OrganizeInit /\ [][OrganizeNext]_vars

\* the jobs whose write handler was dispatched and has not settled
writesInFlight == {j \in DOMAIN jobPc : jobPc[j] \in {"mkdir", "open", "write"}}

\* the records for which a file is stored under their name
plannable ==
    {k \in DOMAIN analysisResults :
        analysisResults[k].result.name \in DOMAIN currentFileData}

\* C23: the naming plan is complete before any write starts and fixed from
\* then on: when a handler is dispatched every job has its final name, the
\* plan never changes once a handler was dispatched, and no two writes in
\* flight target the same folder and name.
C23_PlanBeforeWrites ==
    [][/\ dispatched' # dispatched =>
              /\ Len(readyJobs') = Cardinality(plannable)
              /\ Len(readyJobs') = totalTasks'
              /\ Range(dispatched') \subseteq DOMAIN readyJobs'
       /\ dispatched # <<>> => readyJobs' = readyJobs
       /\ \A i \in writesInFlight', j \in writesInFlight' :
              (i # j /\ readyJobs'[i].folderName = readyJobs'[j].folderName)
                  => readyJobs'[i].finalName # readyJobs'[j].finalName]_vars

C23_Witness ==
    /\ Len(readyJobs) = 2
    /\ readyJobs[1].folderName = readyJobs[2].folderName
    /\ jobPc = <<"write", "write">>
    /\ readyJobs[1].finalName = <<"x", ".", "t", "x", "t">>
    /\ readyJobs[2].finalName = <<"x", "_", "1", ".", "t", "x", "t">>

\* the number of getDirectoryHandle(create) calls issued for folder g
mkdirCount(g) == Cardinality({k \in DOMAIN mkdirs : mkdirs[k] = g})

\* C24: for each destination folder the create-directory operation is
\* issued at most once during an organize batch, the later writers of the
\* folder taking the handle from the cache.
C24_FolderCreatedOnce == \A g \in planFolders : mkdirCount(g) <= 1

\* C25: every file written is a copy of the original its job was planned
\* for: the content written under a final name is the content of the file
\* from which the analysis record of the job was produced.
C25_WrittenIsCopyOfOriginal ==
    \A w \in written : w.content = uploads[readyJobs[w.job].src].bytes

\* the number of files the alert of queue.onComplete reports as organized
organizedReport == Len(readyJobs)

\* C37: when the batch completes, the number of files reported as
\* organized is the number of write jobs that succeeded; files whose write
\* failed are not reported as organized.
C37_ReportCountsSuccesses ==
    completeLog # <<>> =>
        /\ organizedReport = Len(LastOf(completeLog).results)
        /\ organizedReport = Cardinality(written)

(* --------------------- handlers that throw when invoked ----------------- *)
\* the while loop of process() when this.handler(item) throws for the items
\* in throwers: the slot is taken and the item removed before the call, and
\* the exception ends the loop
RECURSIVE fillSlotsThrowing(_, _, _, _, _)
fillSlotsThrowing(ac, k, q, fl, ds) ==
    IF ~canDispatch(ac, k, q)
    THEN [activeCount |-> ac, queue |-> q, inflight |-> fl,
          dispatched |-> ds, threw |-> FALSE]
    ELSE IF Head(q) \in throwers
    THEN [activeCount |-> ac + 1, queue |-> Tail(q), inflight |-> fl,
          dispatched |-> Append(ds, Head(q)), threw |-> TRUE]
    ELSE fillSlotsThrowing(ac + 1, k, Tail(q), fl \cup {Head(q)},
                           Append(ds, Head(q)))

\* process() with such a handler: an exception leaves the async function
\* before the completion test and rejects the promise process() returned,
\* which no caller awaits
processThrowing(ac, res, fl, st, el) ==
    IF paused
    THEN /\ activeCount' = ac
         /\ inflight' = fl
         /\ UNCHANGED <<queue, dispatched, completeLog>>
    ELSE LET f == fillSlotsThrowing(ac, concurrency, queue, fl, dispatched)
         IN  /\ activeCount' = f.activeCount
             /\ queue' = f.queue
             /\ inflight' = f.inflight
             /\ dispatched' = f.dispatched
             /\ completeLog' =
                   IF ~f.threw /\ isIdle(f.activeCount, f.queue)
                   THEN Append(completeLog,
                               completeEvent(res, f.activeCount, f.queue,
                                             f.inflight, st, el))
                   ELSE completeLog

\* a queue whose handler throws for at most one of the items
ThrowInit ==
    /\ concurrency \in 1..MaxK
    /\ queue = <<>>
    /\ activeCount = 0
    /\ results = <<>>
    /\ paused = FALSE
    /\ times = <<>>
    /\ totalTasks = 0
    /\ handler = "unset"
    /\ inflight = {}
    /\ dispatched = <<>>
    /\ settled = <<>>
    /\ errorLog = <<>>
    /\ progressLog = <<>>
    /\ completeLog = <<>>
    /\ noBatch
    /\ noFile
    /\ noHex
    /\ noOrganize
    /\ throwers \in {{}} \cup {{i} : i \in 1..MaxItems}
    /\ noPool
    /\ noParallel

\* start(handler)
startThrowing ==
    /\ handler = "unset"
    /\ handler' = "set"
    /\ processThrowing(activeCount, results, inflight, settled, errorLog)
    /\ UNCHANGED <<concurrency, results, paused, times, totalTasks, settled,
                   errorLog, progressLog>>
    /\ UNCHANGED <<tuneVars, fileVars, hexVars, orgVars, faultVars, poolVars,
                   parVars>>

\* .then callback of item i
resolveThrowing(i, d) ==
    /\ i \in inflight
    /\ LET res == pushResult(results, i)
           ts == pushTime(times, d)
           ac == activeCount - 1
           st == Append(settled, i)
       IN  /\ results' = res
           /\ times' = ts
           /\ settled' = st
           /\ progressLog' =
                 Append(progressLog, progressEvent(res, ac, queue, ts))
           /\ processThrowing(ac, res, inflight \ {i}, st, errorLog)
    /\ UNCHANGED <<concurrency, paused, totalTasks, handler, errorLog>>
    /\ UNCHANGED <<tuneVars, fileVars, hexVars, orgVars, faultVars, poolVars,
                   parVars>>

\* .catch callback of item i
rejectThrowing(i) ==
    /\ i \in inflight
    /\ LET st == Append(settled, i)
           el == Append(errorLog, i)
       IN  /\ errorLog' = el
           /\ settled' = st
           /\ processThrowing(activeCount - 1, results, inflight \ {i}, st, el)
    /\ UNCHANGED <<concurrency, results, paused, times, totalTasks, handler,
                   progressLog>>
    /\ UNCHANGED <<tuneVars, fileVars, hexVars, orgVars, faultVars, poolVars,
                   parVars>>

ThrowNext ==
    \/ \E n \in 1..MaxItems : batchAdd(n)
    \/ startThrowing
    \/ \E i \in 1..MaxItems, d \in 1..MaxDuration : resolveThrowing(i, d)
    \/ \E i \in 1..MaxItems : rejectThrowing(i)

ThrowSpec == ThrowInit /\ [][ThrowNext]_vars

\* C32: a handler that throws when it is invoked is contained like one
\* that rejects: its slot is released, the remaining queued items are
\* dispatched and onComplete fires, so that once no handler is in flight
\* the queue is empty, activeCount is 0 and the batch has completed.
C32_SyncThrowContained ==
    (handler = "set" /\ inflight = {}) =>
        /\ activeCount = 0
        /\ queue = <<>>
        /\ completeLog # <<>>

(* ------------------------ onProgress that throws ------------------------ *)
\* .then callback of item i when this.onProgress(...) throws: the callback
\* has decremented activeCount and stored the result and the duration; the
\* exception rejects the promise of .then(), so the chained .catch callback
\* runs for the same item: console.error, this.activeCount--, this.process()
resolveProgressThrows(i, d) ==
    /\ i \in inflight
    /\ LET res == pushResult(results, i)
           ts == pushTime(times, d)
           st == Append(settled, i)
           el == Append(errorLog, i)
       IN  /\ results' = res
           /\ times' = ts
           /\ settled' = st
           /\ errorLog' = el
           /\ progressLog' =
                 Append(progressLog,
                        progressEvent(res, activeCount - 1, queue, ts))
           /\ process(activeCount - 2, res, inflight \ {i}, st, el)
    /\ UNCHANGED <<concurrency, paused, totalTasks, handler>>
    /\ UNCHANGED <<tuneVars, fileVars, hexVars, orgVars, faultVars, poolVars,
                   parVars>>

ProgressThrowNext ==
    \/ BatchNext
    \/ \E i \in 1..MaxItems, d \in 1..MaxDuration : resolveProgressThrows(i, d)

ProgressThrowSpec == Init /\ [][ProgressThrowNext]_vars

\* C33: when onProgress throws during a successful settlement, activeCount
\* is still decremented once only: it never becomes negative, the handlers
\* in flight never exceed the concurrency limit, and onComplete is not
\* fired while a handler is in flight.
C33_ProgressThrowDecrementsOnce ==
    /\ activeCount >= 0
    /\ Cardinality(inflight) <= concurrency
    /\ \A x \in 1..Len(completeLog) : completeLog[x].inflight = {}

(* ------------------------------ worker pool ----------------------------- *)
MaxWorkers == 2

MaxTasks == 3

\* no DynamicTaskQueue is in use
noQueue ==
    /\ concurrency = 4
    /\ queue = <<>>
    /\ activeCount = 0
    /\ results = <<>>
    /\ paused = FALSE
    /\ times = <<>>
    /\ totalTasks = 0
    /\ handler = "unset"
    /\ inflight = {}
    /\ dispatched = <<>>
    /\ settled = <<>>
    /\ errorLog = <<>>
    /\ progressLog = <<>>
    /\ completeLog = <<>>

\* self.postMessage({ type: 'ready' }) at the end of worker.js
readyMessage == [type |-> "ready", id |-> -1, success |-> FALSE]

\* self.postMessage({ id, success, ... }) of self.onmessage
answerMessage(id, success) ==
    [type |-> "answer", id |-> id, success |-> success]

\* a worker as initWorkerPool leaves it: not busy; inbox holds the ids of
\* the tasks posted to the worker and not answered yet, outbox its messages
\* not yet delivered to handleWorkerMessage
newWorker == [busy |-> FALSE, inbox |-> {}, outbox |-> <<readyMessage>>]

\* variant: the first worker is taken, busy or not
findFreeWorker_IgnoresBusy(pool) == IF pool = <<>> THEN 0 ELSE 1

\* workerPool.find(w => !w.busy): index of the first free worker, 0 if none
findFreeWorker(pool) ==
    IF \E w \in 1..Len(pool) : ~pool[w].busy
    THEN CHOOSE w \in 1..Len(pool) :
             /\ ~pool[w].busy
             /\ \A v \in 1..(w - 1) : pool[v].busy
    ELSE 0

\* workerQueue.find(t => !t.sent): index of the first unsent task, 0 if none
findPendingTask(wq) ==
    IF \E t \in 1..Len(wq) : ~wq[t].sent
    THEN CHOOSE t \in 1..Len(wq) :
             /\ ~wq[t].sent
             /\ \A u \in 1..(t - 1) : wq[u].sent
    ELSE 0

\* workerQueue.findIndex(t => t.id === id), 0 if there is none
findTaskIndex(wq, id) ==
    IF \E t \in 1..Len(wq) : wq[t].id = id
    THEN CHOOSE t \in 1..Len(wq) :
             /\ wq[t].id = id
             /\ \A u \in 1..(t - 1) : wq[u].id # id
    ELSE 0

\* workerQueue.splice(t, 1)
splice(wq, t) == SubSeq(wq, 1, t - 1) \o SubSeq(wq, t + 1, Len(wq))

\* processQueue() on the pool, the task queue wq and the log sl of the
\* postMessage calls
processQueue(pool, wq, sl) ==
    LET w == findFreeWorker(pool)
        t == findPendingTask(wq)
    IN  IF w # 0 /\ t # 0
        THEN [pool |-> [pool EXCEPT ![w].busy = TRUE,
                                    ![w].inbox = @ \cup {wq[t].id}],
              queue |-> [wq EXCEPT ![t].sent = TRUE],
              sent |-> Append(sl, [id |-> wq[t].id, worker |-> w])]
        ELSE [pool |-> pool, queue |-> wq, sent |-> sl]

\* nothing outside the worker pool changes
poolFrame ==
    UNCHANGED <<queueVars, tuneVars, fileVars, hexVars, orgVars, faultVars,
                parVars>>

\* initWorkerPool() has created WORKER_COUNT workers
PoolInit ==
    /\ noQueue
    /\ noBatch
    /\ noFile
    /\ noHex
    /\ noOrganize
    /\ noFault
    /\ noParallel
    /\ workerPool \in {[w \in 1..n |-> newWorker] : n \in 1..MaxWorkers}
    /\ workerQueue = <<>>
    /\ workerIdCounter = 0
    /\ sentLog = <<>>
    /\ taskLog = <<>>

\* runOnWorker(task, data) with a pool that is not empty
runOnWorker ==
    /\ workerIdCounter < MaxTasks
    /\ Len(workerPool) # 0
    /\ LET id == workerIdCounter
           p == processQueue(workerPool,
                             Append(workerQueue, [id |-> id, sent |-> FALSE]),
                             sentLog)
       IN  /\ workerIdCounter' = id + 1
           /\ workerPool' = p.pool
           /\ workerQueue' = p.queue
           /\ sentLog' = p.sent
    /\ UNCHANGED taskLog
    /\ poolFrame

\* self.onmessage of worker w posts the answer to the task id: success, or
\* failure from the catch block
workerAnswers(w, id, success) ==
    /\ w \in DOMAIN workerPool
    /\ id \in workerPool[w].inbox
    /\ workerPool' =
           [workerPool EXCEPT ![w].inbox = @ \ {id},
                              ![w].outbox = Append(@, answerMessage(id, success))]
    /\ UNCHANGED <<workerQueue, workerIdCounter, sentLog, taskLog>>
    /\ poolFrame

\* variant: the answer of a worker does not trigger processQueue()
handleWorkerMessage_NoRefill(w) ==
    /\ w \in DOMAIN workerPool
    /\ workerPool[w].outbox # <<>>
    /\ LET m == Head(workerPool[w].outbox)
           delivered == [workerPool EXCEPT ![w].outbox = Tail(@)]
           t == findTaskIndex(workerQueue, m.id)
       IN  IF m.type = "ready"
           THEN /\ workerPool' = delivered
                /\ UNCHANGED <<workerQueue, sentLog, taskLog>>
           ELSE /\ taskLog' =
                      IF t # 0
                      THEN Append(taskLog,
                                  [id |-> m.id, success |-> m.success,
                                   outcome |-> IF m.success THEN "resolved"
                                               ELSE "rejected"])
                      ELSE taskLog
                /\ workerPool' = [delivered EXCEPT ![w].busy = FALSE]
                /\ workerQueue' =
                      IF t # 0 THEN splice(workerQueue, t) ELSE workerQueue
                /\ UNCHANGED sentLog
    /\ UNCHANGED workerIdCounter
    /\ poolFrame

\* handleWorkerMessage(e) for the oldest undelivered message of worker w
handleWorkerMessage(w) ==
    /\ w \in DOMAIN workerPool
    /\ workerPool[w].outbox # <<>>
    /\ LET m == Head(workerPool[w].outbox)
           delivered == [workerPool EXCEPT ![w].outbox = Tail(@)]
           t == findTaskIndex(workerQueue, m.id)
       IN  IF m.type = "ready"
           THEN /\ workerPool' = delivered
                /\ UNCHANGED <<workerQueue, sentLog, taskLog>>
           ELSE LET p == processQueue(
                             [delivered EXCEPT ![w].busy = FALSE],
                             IF t # 0 THEN splice(workerQueue, t)
                             ELSE workerQueue,
                             sentLog)
                IN  /\ taskLog' =
                          IF t # 0
                          THEN Append(taskLog,
                                      [id |-> m.id, success |-> m.success,
                                       outcome |-> IF m.success
                                                   THEN "resolved"
                                                   ELSE "rejected"])
                          ELSE taskLog
                    /\ workerPool' = p.pool
                    /\ workerQueue' = p.queue
                    /\ sentLog' = p.sent
    /\ UNCHANGED workerIdCounter
    /\ poolFrame

\* some worker answers a task it holds
answers ==
    \E w \in 1..MaxWorkers, id \in 0..(MaxTasks - 1), success \in BOOLEAN :
        workerAnswers(w, id, success)

\* some message of a worker is delivered
deliveries == \E w \in 1..MaxWorkers : handleWorkerMessage(w)

PoolNext ==
    \/ runOnWorker
    \/ answers
    \/ deliveries

PoolSpec == PoolInit /\ [][PoolNext]_vars

\* every task a worker holds is answered and every message is delivered
FairPoolSpec == PoolSpec /\ WF_vars(answers) /\ WF_vars(deliveries)

\* the ids of the tasks posted to worker w and not yet answered to the
\* main thread
outstanding(w) ==
    workerPool[w].inbox
        \cup {workerPool[w].outbox[x].id :
                 x \in {y \in 1..Len(workerPool[w].outbox) :
                           workerPool[w].outbox[y].type = "answer"}}

\* C35: a worker never has more than one task sent to it and not yet
\* answered, a task is sent to at most one worker and at most once, and the
\* tasks sent and not yet answered never exceed the pool size.
C35_OneTaskPerWorker ==
    /\ \A w \in DOMAIN workerPool : Cardinality(outstanding(w)) <= 1
    /\ \A x \in 1..Len(sentLog), y \in 1..Len(sentLog) :
           x # y => sentLog[x].id # sentLog[y].id
    /\ Cardinality(UNION {outstanding(w) : w \in DOMAIN workerPool})
           <= Len(workerPool)
    /\ Cardinality({t \in 1..Len(workerQueue) : workerQueue[t].sent})
           <= Len(workerPool)

\* every worker holds a task, one more task waits, one was answered
C35_Witness ==
    /\ Len(workerPool) = 2
    /\ \A w \in DOMAIN workerPool : Cardinality(outstanding(w)) = 1
    /\ \E t \in 1..Len(workerQueue) : ~workerQueue[t].sent
    /\ Len(sentLog) = 2

\* no worker is idle while an unsent task is queued
workConserving ==
    ~(/\ \E w \in DOMAIN workerPool : ~workerPool[w].busy
      /\ \E t \in 1..Len(workerQueue) : ~workerQueue[t].sent)

\* no promise is settled twice, and it is resolved iff the worker succeeded
settledOnce ==
    /\ \A x \in 1..Len(taskLog), y \in 1..Len(taskLog) :
           x # y => taskLog[x].id # taskLog[y].id
    /\ \A x \in 1..Len(taskLog) :
           taskLog[x].outcome = IF taskLog[x].success THEN "resolved"
                                ELSE "rejected"

\* C36: after each runOnWorker call and each handled answer no worker is
\* idle while an unsent task is queued; when every sent task is answered,
\* every submitted task is eventually sent and its promise settled, once:
\* resolved on success, rejected on failure.
C36_WorkConservingAndLive ==
    /\ [](workConserving /\ settledOnce)
    /\ \A id \in 0..(MaxTasks - 1) :
           (workerIdCounter > id) ~>
               /\ \E x \in 1..Len(sentLog) : sentLog[x].id = id
               /\ \E x \in 1..Len(taskLog) : taskLog[x].id = id

\* three tasks on fewer workers, all settled, both ways
C36_Witness ==
    /\ Len(taskLog) = 3
    /\ Len(workerPool) < 3
    /\ \E x \in 1..3 : taskLog[x].outcome = "resolved"
    /\ \E x \in 1..3 : taskLog[x].outcome = "rejected"
    /\ workerQueue = <<>>

(* ----------------- analyzer.cpp: analyzeFilesParallel ------------------- *)
MaxPaths == 3

\* the values of thread::hardware_concurrency() of this model; 0: unknown
HardwareThreads == {0, 1, 2, 9}

MaxThreads == 8

DefaultThreads == 4

min2(a, b) == IF a < b THEN a ELSE b

max2(a, b) == IF a > b THEN a ELSE b

\* threadCount = min(thread::hardware_concurrency(), 8u), 4 if that is 0
threadCountOf(hw) ==
    IF min2(hw, MaxThreads) = 0 THEN DefaultThreads ELSE min2(hw, MaxThreads)

\* chunkSize = max<size_t>(1, filePaths.size() / threadCount)
chunkSizeOf(n, t) == max2(1, n \div t)

\* variant: a chunk extends one index into the next one
chunkEnd_Overlapping(i, size, n) == min2(i + size + 1, n)

\* end = min(i + chunkSize, filePaths.size())
chunkEnd(i, size, n) == min2(i + size, n)

\* the files behind the paths
ParFiles ==
    {upload(<<"a", ".", "p", "n", "g">>, PngHeader, TRUE),
     upload(<<"a", ".", "t", "x", "t">>, TextContent, TRUE)}

\* analyzeFile(path) for each of them
cppAnalysisOf == [f \in ParFiles |-> cppAnalyzeFile(f, <<>>)]

\* a default-constructed FileInfo
defaultFileInfo ==
    [custom |-> <<>>, type |-> "", category |-> "", isCorrupt |-> FALSE,
     extensionMismatch |-> FALSE, entropy |-> [num |-> 0, den |-> 1],
     matched |-> noMatch, calls |-> {}]

\* the index i of the launch loop, advanced by i += chunkSize
launchIndex ==
    IF futures = <<>> THEN 0
    ELSE futures[Len(futures)].from
             + chunkSizeOf(Len(filePaths), threadCountOf(hardware))

\* analyzeFilesParallel is about to be called on filePaths
ParInit ==
    /\ noQueue
    /\ noBatch
    /\ noFile
    /\ noHex
    /\ noOrganize
    /\ noFault
    /\ noPool
    /\ filePaths \in UNION {[1..n -> ParFiles] : n \in 0..MaxPaths}
    /\ hardware \in HardwareThreads
    /\ futures = <<>>
    /\ cppResults = <<>>
    /\ progressCurrent = 0
    /\ parPc = "idle"

\* nothing outside analyzeFilesParallel changes
parFrame ==
    UNCHANGED <<queueVars, tuneVars, fileVars, hexVars, orgVars, faultVars,
                poolVars, filePaths, hardware>>

\* entry of analyzeFilesParallel: vector<FileInfo> results(filePaths.size());
\* writes holds, per slot, the chunks that assigned it
enter ==
    /\ parPc = "idle"
    /\ parPc' = "launching"
    /\ cppResults' = [j \in 1..Len(filePaths) |->
                         [info |-> defaultFileInfo, writes |-> <<>>]]
    /\ UNCHANGED <<futures, progressCurrent>>
    /\ parFrame

\* one iteration of the launch loop: async(launch::async, [&, i, end] ...)
\* starts a thread for the chunk [i, end)
launchChunk ==
    /\ parPc = "launching"
    /\ launchIndex < Len(filePaths)
    /\ LET size == chunkSizeOf(Len(filePaths), threadCountOf(hardware))
           i == launchIndex
       IN  futures' = Append(futures,
                             [from |-> i,
                              to |-> chunkEnd(i, size, Len(filePaths)),
                              j |-> i,
                              phase |-> "analyze"])
    /\ UNCHANGED <<cppResults, progressCurrent, parPc>>
    /\ parFrame

\* thread of chunk c: results[j] = analyzeFile(filePaths[j])
chunkAnalyzes(c) ==
    /\ c \in DOMAIN futures
    /\ futures[c].phase = "analyze"
    /\ LET j == futures[c].j
       IN  cppResults' =
               [cppResults EXCEPT
                   ![j + 1] = [info |-> cppAnalysisOf[filePaths[j + 1]],
                               writes |-> Append(@.writes, c)]]
    /\ futures' = [futures EXCEPT ![c].phase = "update"]
    /\ UNCHANGED <<progressCurrent, parPc>>
    /\ parFrame

\* thread of chunk c: progress.update(results[j].name) under the mutex,
\* then j++ and the loop test
chunkUpdates(c) ==
    /\ c \in DOMAIN futures
    /\ futures[c].phase = "update"
    /\ progressCurrent' = progressCurrent + 1
    /\ futures' =
           [futures EXCEPT
               ![c].j = @ + 1,
               ![c].phase = IF futures[c].j + 1 < futures[c].to
                            THEN "analyze" ELSE "done"]
    /\ UNCHANGED <<cppResults, parPc>>
    /\ parFrame

\* the launch loop has ended and f.wait() has returned for every future
waitAll ==
    /\ parPc = "launching"
    /\ launchIndex >= Len(filePaths)
    /\ \A c \in DOMAIN futures : futures[c].phase = "done"
    /\ parPc' = "returned"
    /\ UNCHANGED <<futures, cppResults, progressCurrent>>
    /\ parFrame

ParNext ==
    \/ enter
    \/ launchChunk
    \/ \E c \in 1..MaxPaths : chunkAnalyzes(c)
    \/ \E c \in 1..MaxPaths : chunkUpdates(c)
    \/ waitAll

ParSpec == ParInit /\ [][ParNext]_vars

\* the chunks that cover index j
chunksOf(j) == {c \in DOMAIN futures : futures[c].from <= j /\ j < futures[c].to}

running == {c \in DOMAIN futures : futures[c].phase # "done"}

\* C39: analyzeFilesParallel never launches or runs more asynchronous
\* chunks than the thread count it determines.
C39_AtMostThreadCountChunks ==
    /\ Len(futures) <= threadCountOf(hardware)
    /\ Cardinality(running) <= threadCountOf(hardware)
=============================================================================
